---- MODULE Spec2Model ----
(***************************************************************************)
(* SSUM-STAR: structural codecs (Cases 01..04), anchor index builders and  *)
(* seek-and-replay engines, modelled at the byte level.                    *)
(*                                                                         *)
(* Byte strings are sequences over 0..255.  Positions keep the 0-based     *)
(* convention of the Python source: buf[i] of the source is buf[i + 1]     *)
(* here.  A row (Bar, AirTick) is the tuple of its fields in declaration   *)
(* order; equality of frozen dataclasses is field-wise, as tuple equality. *)
(* A call that can raise returns a record with ok = FALSE and the error.   *)
(***************************************************************************)
EXTENDS Integers, Sequences, FiniteSets, TLC

(* ------------------------------ bounds -------------------------------- *)

\* longest row list handed to an encoder
MaxRows == 5

\* The encoder's run cap.  The source value is 10_000_000
\* (star_case01_spx_replay.py:169); the model scales it down so that capped
\* runs occur within MaxRows rows.
RunCap == 3

(* --------------------------- bit primitives --------------------------- *)

RECURSIVE Pow2(_)
Pow2(k) == IF k = 0 THEN 1 ELSE 2 * Pow2(k - 1)

\* a << s  (Python: unbounded integers)
Shl(a, s) == IF a = 0 THEN 0 ELSE a * Pow2(s)

\* a >> s  (arithmetic: floor division by 2^s).  Every integer of the model
\* has magnitude below 2^31, so for s >= 31 the result is the sign.
Shr(a, s) == IF s >= 31 THEN (IF a < 0 THEN -1 ELSE 0) ELSE a \div Pow2(s)

RECURSIVE BitXorNat(_, _)
BitXorNat(a, b) ==
    IF a = 0 THEN b
    ELSE IF b = 0 THEN a
    ELSE (((a % 2) + (b % 2)) % 2) + 2 * BitXorNat(a \div 2, b \div 2)

\* a ^ b on two's-complement integers of unbounded width (~x = -x - 1)
BitXor(a, b) ==
    IF a >= 0 /\ b >= 0 THEN BitXorNat(a, b)
    ELSE IF a < 0 /\ b < 0 THEN BitXorNat(-a - 1, -b - 1)
    ELSE IF a < 0 THEN -BitXorNat(-a - 1, b) - 1
    ELSE -BitXorNat(a, -b - 1) - 1

zigzag_encode(x) == BitXor(Shl(x, 1), Shr(x, 63))

zigzag_decode(u) == BitXor(Shr(u, 1), -(u % 2))

RECURSIVE varint_encode(_)
varint_encode(u) ==
    LET b  == u % 128
        u2 == u \div 128
    IN  IF u2 # 0 THEN <<b + 128>> \o varint_encode(u2) ELSE <<b>>

\* varint_decode with the bound on shift of the calling module
\* (63 in the Case-01 and Case-04 modules, 70 in the Case-02 module).
RECURSIVE varint_decode_from(_, _, _, _, _)
varint_decode_from(buf, i, shift, u, lim) ==
    IF i >= Len(buf) THEN [ok |-> FALSE, err |-> "truncated varint"]
    ELSE LET b  == buf[i + 1]
             u2 == u + Shl(b % 128, shift)
         IN  IF (b \div 128) % 2 = 0 THEN [ok |-> TRUE, u |-> u2, i |-> i + 1]
             ELSE IF shift + 7 > lim THEN [ok |-> FALSE, err |-> "varint too long"]
             ELSE varint_decode_from(buf, i + 1, shift + 7, u2, lim)

Shift01 == 63
Shift02 == 70

varint_decode01(buf, i) == varint_decode_from(buf, i, 0, 0, Shift01)

varint_decode02(buf, i) == varint_decode_from(buf, i, 0, 0, Shift02)

(* ------------------------- tuples of integers ------------------------- *)

Min(a, b) == IF a < b THEN a ELSE b

TupAdd(a, b) == [k \in 1..Len(a) |-> a[k] + b[k]]

TupSub(a, b) == [k \in 1..Len(a) |-> a[k] - b[k]]

RECURSIVE write_tuple_from(_, _)
write_tuple_from(t, k) ==
    IF k > Len(t) THEN <<>>
    ELSE varint_encode(zigzag_encode(t[k])) \o write_tuple_from(t, k + 1)

\* for x in t: out += varint_encode(zigzag_encode(int(x)))
write_tuple(t) == write_tuple_from(t, 1)

\* k times: u, i = varint_decode(buf, i); vals.append(zigzag_decode(u))
RECURSIVE read_ints(_, _, _, _, _)
read_ints(buf, i, k, vals, lim) ==
    IF k = 0 THEN [ok |-> TRUE, vals |-> vals, i |-> i]
    ELSE LET r == varint_decode_from(buf, i, 0, 0, lim)
         IN  IF ~r.ok THEN r
             ELSE read_ints(buf, r.i, k - 1, Append(vals, zigzag_decode(r.u)), lim)

Slice(s, a, b) == IF b <= a THEN <<>> ELSE SubSeq(s, a + 1, IF b > Len(s) THEN Len(s) ELSE b)

(* --------------------------- Case-01 codec ---------------------------- *)

MAGIC_STAR1 == <<83, 84, 65, 82, 49>>

\* deltas[k] = bars[k + 1] - bars[k], field-wise
deltas01(bars) == [k \in 1..(Len(bars) - 1) |-> TupSub(bars[k + 1], bars[k])]

\* mutant: the scan gives up after two equal deltas
RECURSIVE scan_run01_pair(_, _, _, _)
scan_run01_pair(deltas, tup, j, run) ==
    IF j < Len(deltas) /\ deltas[j + 1] = tup /\ run < 2
    THEN scan_run01_pair(deltas, tup, j + 1, run + 1)
    ELSE run

\* while j < len(deltas) and deltas[j] == tup and run < 10_000_000
RECURSIVE scan_run01(_, _, _, _)
scan_run01(deltas, tup, j, run) ==
    IF j < Len(deltas) /\ deltas[j + 1] = tup /\ run < RunCap
    THEN scan_run01(deltas, tup, j + 1, run + 1)
    ELSE run

\* mutant: the loop over the run is dropped, one literal block is written
literal_blocks_once(tup, run) == <<1>> \o write_tuple(tup)

RECURSIVE literal_blocks(_, _)
literal_blocks(tup, run) ==
    IF run = 0 THEN <<>> ELSE <<1>> \o write_tuple(tup) \o literal_blocks(tup, run - 1)

RECURSIVE encode_body01(_, _)
encode_body01(deltas, i) ==
    IF i >= Len(deltas) THEN <<>>
    ELSE LET tup == deltas[i + 1]
             run == scan_run01(deltas, tup, i + 1, 1)
             blk == IF run >= 3
                    THEN <<0>> \o varint_encode(run) \o write_tuple(tup)
                    ELSE literal_blocks(tup, run)
         IN  blk \o encode_body01(deltas, i + run)

\* mutant: the empty recording is written with a price_scale field
encode_star01_scaled(bars, price_scale) ==
    IF bars = <<>> THEN MAGIC_STAR1 \o varint_encode(0) \o varint_encode(price_scale)
    ELSE MAGIC_STAR1 \o varint_encode(Len(bars)) \o varint_encode(price_scale)
         \o write_tuple(bars[1]) \o encode_body01(deltas01(bars), 0)

encode_star01(bars, price_scale) ==
    IF bars = <<>> THEN MAGIC_STAR1 \o varint_encode(0)
    ELSE MAGIC_STAR1 \o varint_encode(Len(bars)) \o varint_encode(price_scale)
         \o write_tuple(bars[1]) \o encode_body01(deltas01(bars), 0)

\* for _ in range(int(run)): bars.append(prev + tup)     (no check against n)
RECURSIVE apply_run01(_, _, _)
apply_run01(bars, tup, run) ==
    IF run <= 0 THEN bars
    ELSE apply_run01(Append(bars, TupAdd(bars[Len(bars)], tup)), tup, run - 1)

RECURSIVE decode_body01(_, _, _, _)
decode_body01(buf, i, bars, n) ==
    IF ~(Len(bars) < n) THEN [ok |-> TRUE, rows |-> bars]
    ELSE IF i >= Len(buf) THEN [ok |-> FALSE, err |-> "truncated body"]
    ELSE LET tag == buf[i + 1] IN
         IF tag = 0 THEN
            LET r == varint_decode01(buf, i + 1) IN
            IF ~r.ok THEN r
            ELSE LET t == read_ints(buf, r.i, 6, <<>>, Shift01) IN
                 IF ~t.ok THEN t
                 ELSE decode_body01(buf, t.i, apply_run01(bars, t.vals, r.u), n)
         ELSE IF tag = 1 THEN
            LET t == read_ints(buf, i + 1, 6, <<>>, Shift01) IN
            IF ~t.ok THEN t
            ELSE decode_body01(buf, t.i, Append(bars, TupAdd(bars[Len(bars)], t.vals)), n)
         ELSE [ok |-> FALSE, err |-> "bad tag"]

decode_star01(buf) ==
    IF Slice(buf, 0, 5) # MAGIC_STAR1 THEN [ok |-> FALSE, err |-> "bad magic"]
    ELSE LET rn == varint_decode01(buf, 5) IN
         IF ~rn.ok THEN rn
         ELSE IF rn.u = 0 THEN [ok |-> TRUE, rows |-> <<>>]
         ELSE LET rp == varint_decode01(buf, rn.i) IN
              IF ~rp.ok THEN rp
              ELSE LET rb == read_ints(buf, rp.i, 6, <<>>, Shift01) IN
                   IF ~rb.ok THEN rb
                   ELSE decode_body01(buf, rb.i, <<rb.vals>>, rn.u)

(* --------------------------- Case-02 codec ---------------------------- *)

STAR_MAGIC == <<83, 84, 65, 82, 50, 65>>

\* mutant: the scan stops at a run of three
RECURSIVE scan_run02_three(_, _, _, _)
scan_run02_three(ticks, dtup, j, run) ==
    IF j < Len(ticks) /\ TupSub(ticks[j + 1], ticks[j]) = dtup /\ run < 3
    THEN scan_run02_three(ticks, dtup, j + 1, run + 1)
    ELSE run

\* while j < len(ticks): if deltas(cur, nxt) == dtup: run += 1 ... else break
\* (cur is ticks[j - 1]; this encoder has no cap on the run)
RECURSIVE scan_run02(_, _, _, _)
scan_run02(ticks, dtup, j, run) ==
    IF j < Len(ticks) /\ TupSub(ticks[j + 1], ticks[j]) = dtup
    THEN scan_run02(ticks, dtup, j + 1, run + 1)
    ELSE run

\* mutant: a short run advances i by run although one block was written
RECURSIVE encode_body02_skip(_, _)
encode_body02_skip(ticks, i) ==
    IF i >= Len(ticks) THEN <<>>
    ELSE LET dtup == TupSub(ticks[i + 1], ticks[i])
             run  == scan_run02(ticks, dtup, i + 1, 1)
         IN  IF run >= 3
             THEN <<0>> \o varint_encode(run) \o write_tuple(dtup)
                  \o encode_body02_skip(ticks, i + run)
             ELSE <<1>> \o write_tuple(dtup) \o encode_body02_skip(ticks, i + run)

RECURSIVE encode_body02(_, _)
encode_body02(ticks, i) ==
    IF i >= Len(ticks) THEN <<>>
    ELSE LET dtup == TupSub(ticks[i + 1], ticks[i])
             run  == scan_run02(ticks, dtup, i + 1, 1)
         IN  IF run >= 3
             THEN <<0>> \o varint_encode(run) \o write_tuple(dtup)
                  \o encode_body02(ticks, i + run)
             ELSE <<1>> \o write_tuple(dtup) \o encode_body02(ticks, i + 1)

encode_star02(ticks) ==
    IF ticks = <<>> THEN STAR_MAGIC \o varint_encode(0)
    ELSE STAR_MAGIC \o varint_encode(Len(ticks)) \o write_tuple(ticks[1])
         \o encode_body02(ticks, 1)

\* for _ in range(run_len): ticks.append(prev + tup); if len(ticks) >= n: break
RECURSIVE apply_run02(_, _, _, _)
apply_run02(ticks, tup, run, n) ==
    IF run <= 0 THEN ticks
    ELSE LET t2 == Append(ticks, TupAdd(ticks[Len(ticks)], tup))
         IN  IF Len(t2) >= n THEN t2 ELSE apply_run02(t2, tup, run - 1, n)

\* mutant: the rows read so far are returned when the buffer ends
RECURSIVE decode_body02_lenient(_, _, _, _)
decode_body02_lenient(buf, i, ticks, n) ==
    IF ~(Len(ticks) < n) THEN [ok |-> TRUE, rows |-> ticks]
    ELSE IF i >= Len(buf) THEN [ok |-> TRUE, rows |-> ticks]
    ELSE LET tag == buf[i + 1] IN
         IF tag = 0 THEN
            LET r == varint_decode02(buf, i + 1) IN
            IF ~r.ok THEN r
            ELSE LET t == read_ints(buf, r.i, 8, <<>>, Shift02) IN
                 IF ~t.ok THEN t
                 ELSE decode_body02_lenient(buf, t.i, apply_run02(ticks, t.vals, r.u, n), n)
         ELSE IF tag = 1 THEN
            LET t == read_ints(buf, i + 1, 8, <<>>, Shift02) IN
            IF ~t.ok THEN t
            ELSE decode_body02_lenient(buf, t.i, Append(ticks, TupAdd(ticks[Len(ticks)], t.vals)), n)
         ELSE [ok |-> FALSE, err |-> "unknown tag in STAR2A body"]

RECURSIVE decode_body02(_, _, _, _)
decode_body02(buf, i, ticks, n) ==
    IF ~(Len(ticks) < n) THEN [ok |-> TRUE, rows |-> ticks]
    ELSE IF i >= Len(buf) THEN [ok |-> FALSE, err |-> "truncated body"]
    ELSE LET tag == buf[i + 1] IN
         IF tag = 0 THEN
            LET r == varint_decode02(buf, i + 1) IN
            IF ~r.ok THEN r
            ELSE LET t == read_ints(buf, r.i, 8, <<>>, Shift02) IN
                 IF ~t.ok THEN t
                 ELSE decode_body02(buf, t.i, apply_run02(ticks, t.vals, r.u, n), n)
         ELSE IF tag = 1 THEN
            LET t == read_ints(buf, i + 1, 8, <<>>, Shift02) IN
            IF ~t.ok THEN t
            ELSE decode_body02(buf, t.i, Append(ticks, TupAdd(ticks[Len(ticks)], t.vals)), n)
         ELSE [ok |-> FALSE, err |-> "unknown tag in STAR2A body"]

decode_star02(buf) ==
    IF Slice(buf, 0, 6) # STAR_MAGIC THEN [ok |-> FALSE, err |-> "bad STAR2A magic"]
    ELSE LET rn == varint_decode02(buf, 6) IN
         IF ~rn.ok THEN rn
         ELSE IF rn.u = 0 THEN [ok |-> TRUE, rows |-> <<>>]
         ELSE LET rb == read_ints(buf, rn.i, 8, <<>>, Shift02) IN
              IF ~rb.ok THEN rb
              ELSE decode_body02(buf, rb.i, <<rb.vals>>, rn.u)

(* ----------------------- Case-01 index builder ------------------------ *)

ZeroTuple(k) == [j \in 1..k |-> 0]

\* returns (n, price_scale, base, i) with i the start of the body
parse_star1_header(buf) ==
    IF Slice(buf, 0, 5) # MAGIC_STAR1
    THEN [ok |-> FALSE, err |-> "bad magic (expected STAR1)"]
    ELSE LET rn == varint_decode01(buf, 5) IN
         IF ~rn.ok THEN rn
         ELSE IF rn.u = 0
         THEN [ok |-> TRUE, n |-> 0, price_scale |-> 0, base |-> ZeroTuple(6), i |-> rn.i]
         ELSE LET rp == varint_decode01(buf, rn.i) IN
              IF ~rp.ok THEN rp
              ELSE LET rb == read_ints(buf, rp.i, 6, <<>>, Shift01) IN
                   IF ~rb.ok THEN rb
                   ELSE [ok |-> TRUE, n |-> rn.u, price_scale |-> rp.u,
                         base |-> rb.vals, i |-> rb.i]

\* returns the delta tuple, the run (1 for a literal block) and the new position
decode_block(buf, i) ==
    IF i >= Len(buf) THEN [ok |-> FALSE, err |-> "truncated: missing tag"]
    ELSE LET tag == buf[i + 1] IN
         IF tag = 0 THEN
            LET r == varint_decode01(buf, i + 1) IN
            IF ~r.ok THEN r
            ELSE LET t == read_ints(buf, r.i, 6, <<>>, Shift01) IN
                 IF ~t.ok THEN t
                 ELSE [ok |-> TRUE, tup |-> t.vals, run |-> r.u, i |-> t.i]
         ELSE IF tag = 1 THEN
            LET t == read_ints(buf, i + 1, 6, <<>>, Shift01) IN
            IF ~t.ok THEN t
            ELSE [ok |-> TRUE, tup |-> t.vals, run |-> 1, i |-> t.i]
         ELSE [ok |-> FALSE, err |-> "bad tag"]

\* mutant: the offset is taken after the tag byte has been consumed
Anchor_after_tag(row, off, state) == [row |-> row, off |-> off + 1, state |-> state]

\* an anchor (row_index, byte_offset, snapshot)
Anchor(row, off, state) == [row |-> row, off |-> off, state |-> state]

\* for _ in range(run): cur += tup; row += 1; if row >= n_rows: break
RECURSIVE index_apply_run01(_, _, _, _, _)
index_apply_run01(cur, row, tup, run, n_rows) ==
    IF run <= 0 THEN [cur |-> cur, row |-> row]
    ELSE LET c2 == TupAdd(cur, tup)
             r2 == row + 1
         IN  IF r2 >= n_rows THEN [cur |-> c2, row |-> r2]
             ELSE index_apply_run01(c2, r2, tup, run - 1, n_rows)

RECURSIVE index_loop01(_, _, _, _, _, _, _)
index_loop01(buf, n_rows, anchor_every, row, pos, cur, anchors) ==
    IF ~(row < n_rows - 1)
    THEN [ok |-> TRUE, n_rows |-> n_rows, anchor_every |-> anchor_every,
          anchors |-> IF anchors[Len(anchors)].row # row
                      THEN Append(anchors, Anchor(row, pos, cur))
                      ELSE anchors]
    ELSE LET a2 == IF row % anchor_every = 0
                      /\ ~(row = 0 /\ anchors # <<>> /\ anchors[Len(anchors)].row = 0)
                   THEN Append(anchors, Anchor(row, pos, cur))
                   ELSE anchors
             blk == decode_block(buf, pos)
         IN  IF ~blk.ok THEN blk
             ELSE LET st == index_apply_run01(cur, row, blk.tup, blk.run, n_rows)
                  IN  IF blk.i > Len(buf)
                      THEN [ok |-> FALSE, err |-> "internal: pos out of bounds"]
                      ELSE index_loop01(buf, n_rows, anchor_every, st.row, blk.i, st.cur, a2)

\* build_index followed by write_index.  The fixed-width fields of the index
\* file are range-checked by struct.pack (it raises, it never wraps), so the
\* file holds the values build_index returned.
build_index01(buf, anchor_every) ==
    LET h == parse_star1_header(buf) IN
    IF ~h.ok THEN h
    ELSE IF h.n = 0
    THEN [ok |-> TRUE, n_rows |-> 0, anchor_every |-> anchor_every,
          anchors |-> <<Anchor(0, h.i, h.base)>>]
    ELSE index_loop01(buf, h.n, anchor_every, 0, h.i, h.base,
                      <<Anchor(0, h.i, h.base)>>)

(* ----------------------- Case-02 index builder ------------------------ *)

\* for _ in range(run_len): if cur_row >= n - 1: break; cur += tup; cur_row += 1
\* mutant: the delta of an RLE block is applied once for the whole run
index_apply_run02_once(cur, cur_row, tup, run, n) ==
    IF run <= 0 \/ cur_row >= n - 1 THEN [cur |-> cur, row |-> cur_row]
    ELSE [cur |-> TupAdd(cur, tup), row |-> Min(cur_row + run, n - 1)]

RECURSIVE index_apply_run02(_, _, _, _, _)
index_apply_run02(cur, cur_row, tup, run, n) ==
    IF run <= 0 \/ cur_row >= n - 1 THEN [cur |-> cur, row |-> cur_row]
    ELSE index_apply_run02(TupAdd(cur, tup), cur_row + 1, tup, run - 1, n)

RECURSIVE index_loop02(_, _, _, _, _, _, _)
index_loop02(buf, n, anchor_every, cur_row, pos, cur, anchors) ==
    IF ~(cur_row < n - 1)
    THEN [ok |-> TRUE, n_rows |-> n, anchor_every |-> anchor_every, anchors |-> anchors]
    ELSE IF pos >= Len(buf) THEN [ok |-> FALSE, err |-> "truncated STAR2A body"]
    ELSE LET tag == buf[pos + 1] IN
         IF tag = 0 THEN
            LET r == varint_decode02(buf, pos + 1) IN
            IF ~r.ok THEN r
            ELSE LET t == read_ints(buf, r.i, 8, <<>>, Shift02) IN
                 IF ~t.ok THEN t
                 ELSE LET st == index_apply_run02(cur, cur_row, t.vals, r.u, n)
                      IN  index_loop02(buf, n, anchor_every, st.row, t.i, st.cur,
                                       IF st.row % anchor_every = 0
                                       THEN Append(anchors, Anchor(st.row, t.i, st.cur))
                                       ELSE anchors)
         ELSE IF tag = 1 THEN
            LET t == read_ints(buf, pos + 1, 8, <<>>, Shift02) IN
            IF ~t.ok THEN t
            ELSE LET c2 == TupAdd(cur, t.vals)
                     r2 == cur_row + 1
                 IN  index_loop02(buf, n, anchor_every, r2, t.i, c2,
                                  IF r2 % anchor_every = 0
                                  THEN Append(anchors, Anchor(r2, t.i, c2))
                                  ELSE anchors)
         ELSE [ok |-> FALSE, err |-> "unknown tag in STAR2A body"]

\* build_index writes the index file itself (u64 row and offset, i64 snapshot)
build_index02(buf, anchor_every) ==
    IF anchor_every <= 0 THEN [ok |-> FALSE, err |-> "--anchor_every must be > 0"]
    ELSE IF Slice(buf, 0, 6) # STAR_MAGIC THEN [ok |-> FALSE, err |-> "bad STAR2A magic"]
    ELSE LET rn == varint_decode02(buf, 6) IN
         IF ~rn.ok THEN rn
         ELSE IF rn.u = 0
         THEN [ok |-> TRUE, n_rows |-> 0, anchor_every |-> anchor_every,
               anchors |-> <<Anchor(0, rn.i, ZeroTuple(8))>>]
         ELSE LET rb == read_ints(buf, rn.i, 8, <<>>, Shift02) IN
              IF ~rb.ok THEN rb
              ELSE index_loop02(buf, rn.u, anchor_every, 0, rb.i, rb.vals,
                                <<Anchor(0, rb.i, rb.vals)>>)

(* -------------------------- Case-01 replay ---------------------------- *)

\* A seek key is [kind, val]: kind "row" stands for seek_row = val (seek_days
\* unused), kind "time" for seek_row = None and seek_days = val.
\* mutant: strict comparison of the row number
want_now_strict(seek, row_i, bar) ==
    IF seek.kind = "row" THEN row_i > seek.val
    ELSE IF seek.kind = "time" THEN bar[1] >= seek.val
    ELSE TRUE

want_now(seek, row_i, bar) ==
    IF seek.kind = "row" THEN row_i >= seek.val
    ELSE IF seek.kind = "time" THEN bar[1] >= seek.val
    ELSE TRUE

\* bisect.bisect_right(a, x) of the standard library
RECURSIVE bisect_right_from(_, _, _, _)
bisect_right_from(a, x, lo, hi) ==
    IF lo < hi
    THEN LET mid == (lo + hi) \div 2
         IN  IF x < a[mid + 1] THEN bisect_right_from(a, x, lo, mid)
             ELSE bisect_right_from(a, x, mid + 1, hi)
    ELSE lo

bisect_right(a, x) == bisect_right_from(a, x, 0, Len(a))

\* the for loop over one block of replay_from
RECURSIVE replay_run01(_, _, _, _, _, _, _, _)
replay_run01(cur, row, results, tup, run, n_rows, seek, out_rows) ==
    IF run <= 0 THEN [cur |-> cur, row |-> row, results |-> results]
    ELSE LET c2 == TupAdd(cur, tup)
             r2 == row + 1
             w  == want_now(seek, r2, c2)
             o2 == IF w THEN Append(results, <<r2, c2>>) ELSE results
         IN  IF (w /\ Len(o2) >= out_rows) \/ r2 >= n_rows - 1
             THEN [cur |-> c2, row |-> r2, results |-> o2]
             ELSE replay_run01(c2, r2, o2, tup, run - 1, n_rows, seek, out_rows)

RECURSIVE replay_loop01(_, _, _, _, _, _, _, _)
replay_loop01(star_buf, row, pos, cur, results, n_rows, seek, out_rows) ==
    IF row < n_rows - 1 /\ Len(results) < out_rows
    THEN LET blk == decode_block(star_buf, pos) IN
         IF ~blk.ok THEN blk
         ELSE LET st == replay_run01(cur, row, results, blk.tup, blk.run,
                                     n_rows, seek, out_rows)
              IN  replay_loop01(star_buf, st.row, blk.i, st.cur, st.results,
                                n_rows, seek, out_rows)
    ELSE [ok |-> TRUE, rows |-> results]

replay_from(star_buf, start_row, start_pos, start_bar, n_rows, seek, out_rows) ==
    replay_loop01(star_buf, start_row, start_pos, start_bar,
                  IF want_now(seek, start_row, start_bar)
                  THEN << <<start_row, start_bar>> >> ELSE <<>>,
                  n_rows, seek, out_rows)

row_keys(idx) == [k \in 1..Len(idx.anchors) |-> idx.anchors[k].row]

day_keys(idx) == [k \in 1..Len(idx.anchors) |-> idx.anchors[k].state[1]]

\* the anchor position chosen by main
choose_anchor01(idx, seek) ==
    LET j == IF seek.kind = "row" THEN bisect_right(row_keys(idx), seek.val) - 1
             ELSE bisect_right(day_keys(idx), seek.val) - 1
    IN  IF j < 0 THEN 0 ELSE j

\* main of star_replay_case01.py, from reading the two files to rows_out
replay_main01(star, idx, seek, out_rows) ==
    LET h == parse_star1_header(star) IN
    IF ~h.ok THEN h
    ELSE IF idx.n_rows # h.n
    THEN [ok |-> FALSE, err |-> "Index n_rows does not match STAR file (wrong pair?)"]
    ELSE LET a == idx.anchors[choose_anchor01(idx, seek) + 1]
         IN  replay_from(star, a.row, a.off, a.state, h.n, seek, out_rows)

(* -------------------------- Case-02 replay ---------------------------- *)

\* mutant: the scan stops at the first anchor whose row is <= seek_row
best_anchor02_first(anchors, seek_row, k, best) ==
    IF k >= Len(anchors) THEN best
    ELSE IF anchors[k + 1].row <= seek_row THEN k
    ELSE best

\* best = 0; for k in range(len(anchors)): if anchors[k][0] <= seek_row: best = k
\* else: break
RECURSIVE best_anchor02(_, _, _, _)
best_anchor02(anchors, seek_row, k, best) ==
    IF k >= Len(anchors) THEN best
    ELSE IF anchors[k + 1].row <= seek_row
    THEN best_anchor02(anchors, seek_row, k + 1, k)
    ELSE best

\* first loop, tag 0: for _ in range(run_len): if cur_row >= seek_row: break
RECURSIVE skip_run02(_, _, _, _, _)
skip_run02(cur, cur_row, tup, run, seek_row) ==
    IF run <= 0 \/ cur_row >= seek_row THEN [cur |-> cur, row |-> cur_row]
    ELSE skip_run02(TupAdd(cur, tup), cur_row + 1, tup, run - 1, seek_row)

\* while cur_row < seek_row: consume one block
RECURSIVE skip_loop02(_, _, _, _, _)
skip_loop02(buf, cur_row, pos, cur, seek_row) ==
    IF ~(cur_row < seek_row) THEN [ok |-> TRUE, row |-> cur_row, pos |-> pos, cur |-> cur]
    ELSE IF pos >= Len(buf) THEN [ok |-> FALSE, err |-> "truncated STAR2A body"]
    ELSE LET tag == buf[pos + 1] IN
         IF tag = 0 THEN
            LET r == varint_decode02(buf, pos + 1) IN
            IF ~r.ok THEN r
            ELSE LET t == read_ints(buf, r.i, 8, <<>>, Shift02) IN
                 IF ~t.ok THEN t
                 ELSE LET st == skip_run02(cur, cur_row, t.vals, r.u, seek_row)
                      IN  skip_loop02(buf, st.row, t.i, st.cur, seek_row)
         ELSE IF tag = 1 THEN
            LET t == read_ints(buf, pos + 1, 8, <<>>, Shift02) IN
            IF ~t.ok THEN t
            ELSE skip_loop02(buf, cur_row + 1, t.i, TupAdd(cur, t.vals), seek_row)
         ELSE [ok |-> FALSE, err |-> "unknown tag in STAR2A body"]

\* second loop, tag 0: for _ in range(run_len): if cur_row >= target_end - 1: break
RECURSIVE emit_run02(_, _, _, _, _, _)
emit_run02(cur, cur_row, out, tup, run, target_end) ==
    IF run <= 0 \/ cur_row >= target_end - 1 THEN [cur |-> cur, row |-> cur_row, out |-> out]
    ELSE LET c2 == TupAdd(cur, tup)
         IN  emit_run02(c2, cur_row + 1, Append(out, c2), tup, run - 1, target_end)

\* while cur_row < target_end - 1: consume one block (stops at the end of buf)
RECURSIVE emit_loop02(_, _, _, _, _, _)
emit_loop02(buf, cur_row, pos, cur, out, target_end) ==
    IF ~(cur_row < target_end - 1) THEN [ok |-> TRUE, rows |-> out]
    ELSE IF pos >= Len(buf) THEN [ok |-> TRUE, rows |-> out]
    ELSE LET tag == buf[pos + 1] IN
         IF tag = 0 THEN
            LET r == varint_decode02(buf, pos + 1) IN
            IF ~r.ok THEN r
            ELSE LET t == read_ints(buf, r.i, 8, <<>>, Shift02) IN
                 IF ~t.ok THEN t
                 ELSE LET st == emit_run02(cur, cur_row, out, t.vals, r.u, target_end)
                      IN  emit_loop02(buf, st.row, t.i, st.cur, st.out, target_end)
         ELSE IF tag = 1 THEN
            LET t == read_ints(buf, pos + 1, 8, <<>>, Shift02) IN
            IF ~t.ok THEN t
            ELSE LET c2 == TupAdd(cur, t.vals)
                 IN  emit_loop02(buf, cur_row + 1, t.i, c2, Append(out, c2), target_end)
         ELSE [ok |-> FALSE, err |-> "unknown tag in STAR2A body"]

\* seek_row of kind "none" stands for seek_row = None
replay_seek(buf, idx, seek, rows_arg) ==
    IF Slice(buf, 0, 6) # STAR_MAGIC THEN [ok |-> FALSE, err |-> "bad STAR2A magic"]
    ELSE IF idx.n_rows = 0 THEN [ok |-> TRUE, rows |-> <<>>]
    ELSE LET seek_row == IF seek.kind = "none" THEN 0
                         ELSE IF seek.val < 0 THEN 0 ELSE seek.val
         IN  IF seek_row >= idx.n_rows THEN [ok |-> TRUE, rows |-> <<>>]
             ELSE LET a  == idx.anchors[best_anchor02(idx.anchors, seek_row, 0, 0) + 1]
                      sk == skip_loop02(buf, a.row, a.off, a.state, seek_row)
                  IN  IF ~sk.ok THEN sk
                      ELSE emit_loop02(buf, sk.row, sk.pos, sk.cur, <<sk.cur>>,
                                       Min(idx.n_rows, seek_row + rows_arg))

(* --------------------------- Case-03 codec ---------------------------- *)

MAGIC03 == <<83, 84, 65, 82, 48, 51, 0, 1>>

\* same loop as varint_encode, under the name of the Case-03 module
uvarint_encode(n) == varint_encode(n)

\* mutant: the comparison stops after the first shared byte
RECURSIVE common_prefix_one(_, _, _)
common_prefix_one(prev, cur, p) ==
    IF p < Min(Len(prev), Len(cur)) /\ prev[p + 1] = cur[p + 1] /\ p < 1
    THEN common_prefix_one(prev, cur, p + 1)
    ELSE p

\* m = min(len(prev), len(cur)); while p < m and prev[p] == cur[p]: p += 1
RECURSIVE common_prefix(_, _, _)
common_prefix(prev, cur, p) ==
    IF p < Min(Len(prev), Len(cur)) /\ prev[p + 1] = cur[p + 1]
    THEN common_prefix(prev, cur, p + 1)
    ELSE p

\* mutant: the whole line is written as the suffix although a shared prefix
\* is announced
RECURSIVE encode_lines_whole_suffix(_, _, _)
encode_lines_whole_suffix(lines, k, prev) ==
    IF k > Len(lines) THEN <<>>
    ELSE LET cur == lines[k]
             p   == common_prefix(prev, cur, 0)
         IN  uvarint_encode(p) \o uvarint_encode(Len(cur)) \o cur
             \o encode_lines_whole_suffix(lines, k + 1, cur)

\* the loop of encode_lines_frontcoded from line k on, prev the line before
RECURSIVE encode_lines_from(_, _, _)
encode_lines_from(lines, k, prev) ==
    IF k > Len(lines) THEN <<>>
    ELSE LET cur == lines[k]
             p   == common_prefix(prev, cur, 0)
             suffix == Slice(cur, p, Len(cur))
         IN  uvarint_encode(p) \o uvarint_encode(Len(suffix)) \o suffix
             \o encode_lines_from(lines, k + 1, cur)

encode_lines_frontcoded(lines) == encode_lines_from(lines, 1, <<>>)

\* main: packed = MAGIC + uvarint(len(header)) + header + records
encode_file03(header, data_lines) ==
    MAGIC03 \o uvarint_encode(Len(header)) \o header \o encode_lines_frontcoded(data_lines)

\* The repository has no Case-03 decoder.  This is the reader of spec 4.4:
\* records varint(p) | varint(s) | suffix[0..s) until end of input, each line
\* rebuilt as prev[0..p) ++ suffix.
RECURSIVE decode_records03(_, _, _, _)
decode_records03(buf, pos, prev, acc) ==
    IF pos >= Len(buf) THEN [ok |-> TRUE, lines |-> acc]
    ELSE LET rp == varint_decode01(buf, pos) IN
         IF ~rp.ok THEN rp
         ELSE LET rs == varint_decode01(buf, rp.i) IN
              IF ~rs.ok THEN rs
              ELSE IF rs.i + rs.u > Len(buf) \/ rp.u > Len(prev)
              THEN [ok |-> FALSE, err |-> "truncated record"]
              ELSE LET line == Slice(prev, 0, rp.u) \o Slice(buf, rs.i, rs.i + rs.u)
                   IN  decode_records03(buf, rs.i + rs.u, line, Append(acc, line))

decode_file03(buf) ==
    IF Slice(buf, 0, 8) # MAGIC03 THEN [ok |-> FALSE, err |-> "bad magic"]
    ELSE LET rh == varint_decode01(buf, 8) IN
         IF ~rh.ok THEN rh
         ELSE IF rh.i + rh.u > Len(buf) THEN [ok |-> FALSE, err |-> "truncated header"]
         ELSE LET r == decode_records03(buf, rh.i + rh.u, <<>>, <<>>)
              IN  IF ~r.ok THEN r
                  ELSE [ok |-> TRUE, header |-> Slice(buf, rh.i, rh.i + rh.u),
                        lines |-> r.lines]

(* --------------------------- Case-04 codec ---------------------------- *)

MAGIC8 == <<83, 84, 65, 82, 52, 4, 79, 70>>

\* A record is a function from the twelve column names to strings, as the
\* dict rows of read_rows.
DICT_COLS == <<"Mining_Pool", "Currency", "Transaction_Type", "Transaction_Status">>

\* the seven columns written verbatim before the codes, in write order
LITERAL_COLS ==
    <<"Transaction_ID", "Sender_Address", "Receiver_Address", "Amount",
      "Transaction_Fee", "Timestamp", "Block_ID">>

\* struct.pack("<I", n)
pack_u32(n) == <<n % 256, (n \div 256) % 256, (n \div 65536) % 256, (n \div 16777216) % 256>>

\* struct.unpack_from("<I", blob, pos)  (pos + 4 <= len(blob))
unpack_u32(blob, pos) ==
    blob[pos + 1] + 256 * blob[pos + 2] + 65536 * blob[pos + 3] + 16777216 * blob[pos + 4]

\* A string is its sequence of code points (below 0x10000, no surrogates).
RECURSIVE utf8_encode(_)
utf8_encode(str) ==
    IF str = <<>> THEN <<>>
    ELSE LET c == Head(str)
             b == IF c < 128 THEN <<c>>
                  ELSE IF c < 2048 THEN <<192 + (c \div 64), 128 + (c % 64)>>
                  ELSE <<224 + (c \div 4096), 128 + ((c \div 64) % 64), 128 + (c % 64)>>
         IN  b \o utf8_encode(Tail(str))

\* bytes.decode("utf-8"); a malformed sequence raises
RECURSIVE utf8_decode_from(_, _, _)
utf8_decode_from(b, k, acc) ==
    IF k > Len(b) THEN [ok |-> TRUE, s |-> acc]
    ELSE LET b0 == b[k] IN
         IF b0 < 128 THEN utf8_decode_from(b, k + 1, Append(acc, b0))
         ELSE IF b0 >= 194 /\ b0 < 224 /\ k + 1 <= Len(b)
                 /\ b[k + 1] >= 128 /\ b[k + 1] < 192
         THEN utf8_decode_from(b, k + 2, Append(acc, (b0 - 192) * 64 + (b[k + 1] - 128)))
         ELSE IF b0 >= 224 /\ b0 < 240 /\ k + 2 <= Len(b)
                 /\ b[k + 1] >= 128 /\ b[k + 1] < 192
                 /\ b[k + 2] >= 128 /\ b[k + 2] < 192
                 /\ (b0 - 224) * 4096 + (b[k + 1] - 128) * 64 >= 2048
         THEN utf8_decode_from(b, k + 3,
                  Append(acc, (b0 - 224) * 4096 + (b[k + 1] - 128) * 64 + (b[k + 2] - 128)))
         ELSE [ok |-> FALSE, err |-> "UnicodeDecodeError"]

utf8_decode(b) == utf8_decode_from(b, 1, <<>>)

\* write_uvarint (n is a length or a dictionary code, never negative)
write_uvarint(n) == varint_encode(n)

read_uvarint(buf, pos) ==
    LET r == varint_decode_from(buf, pos, 0, 0, Shift01)
    IN  IF r.ok THEN r
        ELSE IF r.err = "truncated varint" THEN [ok |-> FALSE, err |-> "unexpected EOF in uvarint"]
        ELSE [ok |-> FALSE, err |-> "uvarint too large"]

\* mutant: the length prefix counts characters, not bytes
write_str_chars(str) == write_uvarint(Len(str)) \o utf8_encode(str)

write_str(str) == LET b == utf8_encode(str) IN write_uvarint(Len(b)) \o b

read_str(buf, pos) ==
    LET r == read_uvarint(buf, pos) IN
    IF ~r.ok THEN r
    ELSE IF r.i + r.u > Len(buf) THEN [ok |-> FALSE, err |-> "unexpected EOF in string"]
    ELSE LET d == utf8_decode(Slice(buf, r.i, r.i + r.u))
         IN  IF ~d.ok THEN d ELSE [ok |-> TRUE, s |-> d.s, i |-> r.i + r.u]

\* position of v in arr (0-based), or -1
RECURSIVE index_of(_, _, _)
index_of(arr, v, k) ==
    IF k > Len(arr) THEN -1
    ELSE IF arr[k] = v THEN k - 1
    ELSE index_of(arr, v, k + 1)

\* mutant: a value is entered again whenever it differs from the last entry
RECURSIVE build_dict_last_only(_, _, _, _)
build_dict_last_only(rws, col, k, arr) ==
    IF k > Len(rws) THEN arr
    ELSE LET v == rws[k][col]
         IN  build_dict_last_only(rws, col, k + 1,
                 IF arr = <<>> \/ arr[Len(arr)] # v THEN Append(arr, v) ELSE arr)

\* arr of build_dict: the distinct values of the column in first-occurrence
\* order; uniq[v] is the position of v in arr
RECURSIVE build_dict(_, _, _, _)
build_dict(rws, col, k, arr) ==
    IF k > Len(rws) THEN arr
    ELSE LET v == rws[k][col]
         IN  build_dict(rws, col, k + 1, IF index_of(arr, v, 1) = -1 THEN Append(arr, v) ELSE arr)

RECURSIVE write_dict_entries(_, _)
write_dict_entries(arr, k) ==
    IF k > Len(arr) THEN <<>>
    ELSE LET b == utf8_encode(arr[k])
         IN  pack_u32(Len(b)) \o b \o write_dict_entries(arr, k + 1)

RECURSIVE write_dicts(_, _)
write_dicts(rws, c) ==
    IF c > Len(DICT_COLS) THEN <<>>
    ELSE LET arr == build_dict(rws, DICT_COLS[c], 1, <<>>)
         IN  pack_u32(Len(arr)) \o write_dict_entries(arr, 1) \o write_dicts(rws, c + 1)

RECURSIVE write_literals(_, _)
write_literals(row, c) ==
    IF c > Len(LITERAL_COLS) THEN <<>>
    ELSE write_str(row[LITERAL_COLS[c]]) \o write_literals(row, c + 1)

RECURSIVE write_codes(_, _, _)
write_codes(rws, row, c) ==
    IF c > Len(DICT_COLS) THEN <<>>
    ELSE write_uvarint(index_of(build_dict(rws, DICT_COLS[c], 1, <<>>), row[DICT_COLS[c]], 1))
         \o write_codes(rws, row, c + 1)

RECURSIVE write_rows04(_, _)
write_rows04(rws, k) ==
    IF k > Len(rws) THEN <<>>
    ELSE write_literals(rws[k], 1) \o write_codes(rws, rws[k], 1)
         \o write_str(rws[k]["Gas_Price_Gwei"]) \o write_rows04(rws, k + 1)

encode_case04(rws) ==
    MAGIC8 \o pack_u32(Len(rws)) \o pack_u32(12) \o write_dicts(rws, 1) \o write_rows04(rws, 1)

\* for _ in range(n): ln = u32; s = blob[pos:pos+ln].decode("utf-8")
RECURSIVE read_dict_entries(_, _, _, _)
read_dict_entries(blob, pos, n, arr) ==
    IF n = 0 THEN [ok |-> TRUE, arr |-> arr, i |-> pos]
    ELSE IF pos + 4 > Len(blob) THEN [ok |-> FALSE, err |-> "struct.error"]
    ELSE LET ln == unpack_u32(blob, pos)
             d  == utf8_decode(Slice(blob, pos + 4, pos + 4 + ln))
         IN  IF ~d.ok THEN d
             ELSE read_dict_entries(blob, pos + 4 + ln, n - 1, Append(arr, d.s))

RECURSIVE read_dicts(_, _, _, _)
read_dicts(blob, pos, c, dicts) ==
    IF c > Len(DICT_COLS) THEN [ok |-> TRUE, dicts |-> dicts, i |-> pos]
    ELSE IF pos + 4 > Len(blob) THEN [ok |-> FALSE, err |-> "struct.error"]
    ELSE LET r == read_dict_entries(blob, pos + 4, unpack_u32(blob, pos), <<>>)
         IN  IF ~r.ok THEN r
             ELSE read_dicts(blob, r.i, c + 1, Append(dicts, r.arr))

RECURSIVE read_strs(_, _, _, _)
read_strs(blob, pos, k, acc) ==
    IF k = 0 THEN [ok |-> TRUE, strs |-> acc, i |-> pos]
    ELSE LET r == read_str(blob, pos)
         IN  IF ~r.ok THEN r ELSE read_strs(blob, r.i, k - 1, Append(acc, r.s))

RECURSIVE read_codes(_, _, _, _, _)
read_codes(blob, pos, c, dicts, acc) ==
    IF c > Len(DICT_COLS) THEN [ok |-> TRUE, vals |-> acc, i |-> pos]
    ELSE LET r == read_uvarint(blob, pos)
         IN  IF ~r.ok THEN r
             ELSE IF r.u >= Len(dicts[c]) THEN [ok |-> FALSE, err |-> "IndexError"]
             ELSE read_codes(blob, r.i, c + 1, dicts, Append(acc, dicts[c][r.u + 1]))

\* The four codes are read before any dictionary lookup; a bad code raises
\* when the row is built, which gives the same outcome.
RECURSIVE read_rows04(_, _, _, _, _)
read_rows04(blob, pos, nrows, dicts, acc) ==
    IF nrows = 0 THEN [ok |-> TRUE, rows |-> acc]
    ELSE LET lit == read_strs(blob, pos, 7, <<>>) IN
         IF ~lit.ok THEN lit
         ELSE LET cod == read_codes(blob, lit.i, 1, dicts, <<>>) IN
              IF ~cod.ok THEN cod
              ELSE LET gas == read_str(blob, cod.i) IN
                   IF ~gas.ok THEN gas
                   ELSE read_rows04(blob, gas.i, nrows - 1, dicts,
                            Append(acc,
                                [Transaction_ID     |-> lit.strs[1],
                                 Sender_Address     |-> lit.strs[2],
                                 Receiver_Address   |-> lit.strs[3],
                                 Amount             |-> lit.strs[4],
                                 Transaction_Fee    |-> lit.strs[5],
                                 Timestamp          |-> lit.strs[6],
                                 Block_ID           |-> lit.strs[7],
                                 Mining_Pool        |-> cod.vals[1],
                                 Currency           |-> cod.vals[2],
                                 Transaction_Type   |-> cod.vals[3],
                                 Transaction_Status |-> cod.vals[4],
                                 Gas_Price_Gwei     |-> gas.s]))

decode_case04(blob) ==
    IF Len(blob) < 16 THEN [ok |-> FALSE, err |-> "star blob too small"]
    ELSE IF Slice(blob, 0, 8) # MAGIC8 THEN [ok |-> FALSE, err |-> "bad STAR4 header"]
    ELSE IF unpack_u32(blob, 12) # 12 THEN [ok |-> FALSE, err |-> "unexpected cols in STAR4"]
    ELSE LET d == read_dicts(blob, 16, 1, <<>>) IN
         IF ~d.ok THEN d
         ELSE read_rows04(blob, d.i, unpack_u32(blob, 8), d.dicts, <<>>)

(* ------------------ Case-03 / Case-04 index and replay ---------------- *)

\* b"STARIDX04\x00" and b"STARIDX04"
MAGIC_A04 == <<83, 84, 65, 82, 73, 68, 88, 48, 52, 0>>

MAGIC_B04 == <<83, 84, 65, 82, 73, 68, 88, 48, 52>>

\* b"STARIDX03\x00" and b"STARIDX03"
MAGIC_A03 == <<83, 84, 65, 82, 73, 68, 88, 48, 51, 0>>

MAGIC_B03 == <<83, 84, 65, 82, 73, 68, 88, 48, 51>>

VERSION_U32 == 4

FLAG_OFFSETS_PRESENT == 1

\* an optional argument: None, or an integer
Nil == [some |-> FALSE, val |-> 0]

Some(v) == [some |-> TRUE, val |-> v]

\* h.update over the chunks of the file.  SHA-256 itself is not computed bit
\* for bit: a polynomial checksum of the whole file stands for the compression
\* function, so two files may share a digest more often than in the program.
\* (h is never negative: the test only makes h a value before the next step.)
RECURSIVE sha_update(_, _, _)
sha_update(buf, k, h) ==
    IF k > Len(buf) \/ h < 0 THEN h
    ELSE sha_update(buf, k + 1, (h * 31 + buf[k] + 1) % 65521)

\* the 32 bytes of the digest
sha_digest(buf) ==
    LET h == sha_update(buf, 1, 7)
    IN  [k \in 1..32 |-> IF k = 1 THEN h % 256
                         ELSE IF k = 2 THEN h \div 256
                         ELSE (h + 37 * k) % 256]

\* bytes.hex(): two hexadecimal digits per byte, a digit being its value
RECURSIVE bytes_hex(_)
bytes_hex(b) ==
    IF b = <<>> THEN <<>>
    ELSE <<Head(b) \div 16, Head(b) % 16>> \o bytes_hex(Tail(b))

\* bytes.fromhex(): one byte per two digits (an even number of digits)
RECURSIVE bytes_fromhex(_)
bytes_fromhex(hx) ==
    IF Len(hx) < 2 THEN <<>>
    ELSE <<16 * hx[1] + hx[2]>> \o bytes_fromhex(Tail(Tail(hx)))

\* sha256_file: h.hexdigest()
sha256_file(buf) == bytes_hex(sha_digest(buf))

\* struct.pack("<q", v), for -2^31 <= v < 2^31: two's complement, little-endian
pack_i64(v) ==
    pack_u32(v) \o (IF v < 0 THEN <<255, 255, 255, 255>> ELSE <<0, 0, 0, 0>>)

\* struct.unpack_from("<q", buf, pos), for values of 32 bits sign-extended
unpack_i64(buf, pos) ==
    IF buf[pos + 8] >= 128
    THEN -(1 + (255 - buf[pos + 1]) + 256 * (255 - buf[pos + 2])
             + 65536 * (255 - buf[pos + 3]) + 16777216 * (255 - buf[pos + 4]))
    ELSE unpack_u32(buf, pos)

\* struct.pack("<Q", v) and struct.unpack_from("<Q", buf, pos), 0 <= v < 2^31
pack_u64(v) == pack_u32(v) \o <<0, 0, 0, 0>>

unpack_u64(buf, pos) == unpack_u32(buf, pos)

\* mutant: no anchor is added for the last row
build_anchors_no_last(n_rows, cadence_min, anchor_every) ==
    LET cnt == IF n_rows <= 0 THEN 0 ELSE (n_rows + anchor_every - 1) \div anchor_every
    IN  [k \in 1..cnt |-> <<(k - 1) * anchor_every, (k - 1) * anchor_every * cadence_min>>]

\* build_anchors: rows 0, anchor_every, 2 * anchor_every, ... and the last row
build_anchors(n_rows, cadence_min, anchor_every) ==
    LET cnt == IF n_rows <= 0 THEN 0 ELSE (n_rows + anchor_every - 1) \div anchor_every
        regular == [k \in 1..cnt |-> <<(k - 1) * anchor_every, (k - 1) * anchor_every * cadence_min>>]
        last_row == n_rows - 1
        with_last == IF cnt > 0 /\ regular[cnt][1] # last_row
                     THEN Append(regular, <<last_row, last_row * cadence_min>>)
                     ELSE regular
    IN  IF with_last = <<>> /\ n_rows > 0 THEN <<<<0, 0>>>> ELSE with_last

\* the anchors of write_index: u32(row) | i64(t_min) | u64(0)
RECURSIVE write_anchors(_)
write_anchors(anchors) ==
    IF anchors = <<>> THEN <<>>
    ELSE pack_u32(Head(anchors)[1]) \o pack_i64(Head(anchors)[2]) \o pack_u64(0)
         \o write_anchors(Tail(anchors))

\* write_index of star_index_case04.py, the magic being the writer's
write_index_magic(magic, anchor_every, anchors, star_sha256_hex, cadence_min) ==
    magic \o pack_u32(VERSION_U32) \o pack_u32(anchor_every) \o pack_u32(Len(anchors))
    \o pack_u32(0) \o pack_i64(cadence_min) \o bytes_fromhex(star_sha256_hex)
    \o write_anchors(anchors)

write_index04(anchor_every, anchors, star_sha256_hex, cadence_min) ==
    write_index_magic(MAGIC_A04, anchor_every, anchors, star_sha256_hex, cadence_min)

\* main of star_index_case04.py: the index file, or the exit message
index_main04(star, n_rows, anchor_every, cad) ==
    IF n_rows <= 0 THEN [ok |-> FALSE, err |-> "ERROR: --rows must be > 0"]
    ELSE IF anchor_every <= 0 THEN [ok |-> FALSE, err |-> "ERROR: --anchor_every must be > 0"]
    ELSE IF cad <= 0 THEN [ok |-> FALSE, err |-> "ERROR: --cad must be > 0"]
    ELSE [ok |-> TRUE,
          idx |-> write_index04(anchor_every, build_anchors(n_rows, cad, anchor_every),
                                sha256_file(star), cad)]

\* The repository has no Case-03 index builder.  Spec 4.7: the Case-03 index
\* has the layout of the Case-04 one under the magic "STARIDX03\x00".
index_main03(star, n_rows, anchor_every, cad) ==
    IF n_rows <= 0 \/ anchor_every <= 0 \/ cad <= 0
    THEN [ok |-> FALSE, err |-> "bad argument"]
    ELSE [ok |-> TRUE,
          idx |-> write_index_magic(MAGIC_A03, anchor_every,
                                    build_anchors(n_rows, cad, anchor_every),
                                    sha256_file(star), cad)]

\* load_index: the anchors, 20 bytes each, from byte pos on
RECURSIVE load_anchors(_, _, _, _)
load_anchors(buf, pos, k, acc) ==
    IF k = 0 THEN [ok |-> TRUE, anchors |-> acc]
    ELSE IF pos + 20 > Len(buf) THEN [ok |-> FALSE, err |-> "struct.error"]
    ELSE load_anchors(buf, pos + 20, k - 1,
                      Append(acc, <<unpack_u32(buf, pos), unpack_i64(buf, pos + 4),
                                    unpack_u64(buf, pos + 12)>>))

\* load_index, MAGIC_A the preferred and MAGIC_B the tolerated magic
load_index_magic(buf, MAGIC_A, MAGIC_B) ==
    LET isA == Slice(buf, 0, Len(MAGIC_A)) = MAGIC_A
        isB == Slice(buf, 0, Len(MAGIC_B)) = MAGIC_B
        p0  == IF isA THEN Len(MAGIC_A) ELSE Len(MAGIC_B)
    IN  IF ~isA /\ ~isB THEN [ok |-> FALSE, err |-> "bad idx magic"]
        ELSE IF p0 + 24 > Len(buf) THEN [ok |-> FALSE, err |-> "struct.error"]
        ELSE LET anchor_every == unpack_u32(buf, p0 + 4)
                 n            == unpack_u32(buf, p0 + 8)
                 flags        == unpack_u32(buf, p0 + 12)
                 cadence_min  == unpack_i64(buf, p0 + 16)
                 star_sha_raw == Slice(buf, p0 + 24, p0 + 56)
                 ra           == load_anchors(buf, p0 + 56, n, <<>>)
             IN  IF ~ra.ok THEN ra
                 ELSE [ok |-> TRUE,
                       magic |-> IF isA THEN MAGIC_A ELSE MAGIC_B,
                       version |-> unpack_u32(buf, p0),
                       anchor_every |-> anchor_every,
                       anchors |-> ra.anchors,
                       cadence_min |-> cadence_min,
                       offsets_present |-> (flags % 2) = FLAG_OFFSETS_PRESENT,
                       star_sha_hex |-> bytes_hex(star_sha_raw)]

\* for a in anchors: if a[0] <= target_row: best = a, else: break
RECURSIVE nearest_anchor(_, _, _, _)
nearest_anchor(anchors, k, target_row, best) ==
    IF k > Len(anchors) \/ anchors[k][1] > target_row THEN best
    ELSE nearest_anchor(anchors, k + 1, target_row, anchors[k])

Max(a, b) == IF a >= b THEN a ELSE b

\* resolve_seek: seek_time_min and rows_hint are optional
resolve_seek(anchors, cadence_min, seek_row, seek_time_min, rows_hint) ==
    IF seek_time_min.some /\ cadence_min = 0
    THEN [ok |-> FALSE, err |-> "ZeroDivisionError"]
    ELSE LET t0 == IF seek_time_min.some THEN seek_time_min.val \div cadence_min
                   ELSE seek_row
             target_row == IF rows_hint.some
                           THEN Max(0, Min(t0, rows_hint.val - 1))
                           ELSE t0
         IN  IF anchors = <<>> THEN [ok |-> FALSE, err |-> "IndexError"]
             ELSE [ok |-> TRUE, target_row |-> target_row,
                   best |-> nearest_anchor(anchors, 1, target_row, anchors[1])]

\* mutant: the preview loop does not stop at rows_hint
RECURSIVE replay_preview_unbounded(_, _, _, _, _)
replay_preview_unbounded(target_row, i, n_out, rows_hint, cadence_min) ==
    IF i >= n_out THEN <<>>
    ELSE <<<<target_row + i, (target_row + i) * cadence_min>>>>
         \o replay_preview_unbounded(target_row, i + 1, n_out, rows_hint, cadence_min)

\* the preview loop of main: the pairs (r, r * cadence_min) from target_row on
RECURSIVE replay_preview(_, _, _, _, _)
replay_preview(target_row, i, n_out, rows_hint, cadence_min) ==
    IF i >= n_out THEN <<>>
    ELSE LET r == target_row + i IN
         IF rows_hint.some /\ r >= rows_hint.val THEN <<>>
         ELSE <<<<r, r * cadence_min>>>>
              \o replay_preview(target_row, i + 1, n_out, rows_hint, cadence_min)

NotResolved == [done |-> FALSE, target_row |-> 0, nearest |-> <<>>]

ReplayFailed(msg) == [ok |-> FALSE, err |-> msg, resolved |-> NotResolved, out |-> <<>>]

\* mutant: the binding is not checked when --cadence_min is given
replay_main_unbound_override(star, idx_buf, a, MAGIC_A, MAGIC_B) ==
    IF ~a.seek_row.some /\ ~a.seek_time.some
    THEN ReplayFailed("Provide --seek_row or --seek_time")
    ELSE LET star_sha == sha256_file(star)
             idx == load_index_magic(idx_buf, MAGIC_A, MAGIC_B)
         IN  IF ~idx.ok THEN ReplayFailed(idx.err)
             ELSE LET cadence_min == IF a.cadence_min.some THEN a.cadence_min.val
                                     ELSE idx.cadence_min
                  IN  IF idx.star_sha_hex # star_sha /\ ~a.cadence_min.some
                      THEN ReplayFailed("IDX binding mismatch")
                      ELSE LET rs == resolve_seek(idx.anchors, cadence_min,
                                                  IF a.seek_row.some THEN a.seek_row.val ELSE 0,
                                                  a.seek_time, a.rows_hint)
                           IN  IF ~rs.ok THEN ReplayFailed(rs.err)
                               ELSE [ok |-> TRUE, err |-> "",
                                     resolved |-> [done |-> TRUE,
                                                   target_row |-> rs.target_row,
                                                   nearest |-> rs.best],
                                     out |-> replay_preview(rs.target_row, 0, a.rows,
                                                            a.rows_hint, cadence_min)]

\* main of star_replay_case03.py / star_replay_case04.py.  a holds the
\* arguments seek_row, seek_time, rows, rows_hint, cadence_min.  The result
\* records how far main came: the error raised, whether resolve_seek
\* returned, and the (row, t_min) pairs printed.
replay_main_magic(star, idx_buf, a, MAGIC_A, MAGIC_B) ==
    IF ~a.seek_row.some /\ ~a.seek_time.some
    THEN ReplayFailed("Provide --seek_row or --seek_time")
    ELSE LET star_sha == sha256_file(star)
             idx == load_index_magic(idx_buf, MAGIC_A, MAGIC_B)
         IN  IF ~idx.ok THEN ReplayFailed(idx.err)
             ELSE LET cadence_min == IF a.cadence_min.some THEN a.cadence_min.val
                                     ELSE idx.cadence_min
                  IN  IF idx.star_sha_hex # star_sha
                      THEN ReplayFailed("IDX binding mismatch")
                      ELSE LET rs == resolve_seek(idx.anchors, cadence_min,
                                                  IF a.seek_row.some THEN a.seek_row.val ELSE 0,
                                                  a.seek_time, a.rows_hint)
                           IN  IF ~rs.ok THEN ReplayFailed(rs.err)
                               ELSE [ok |-> TRUE, err |-> "",
                                     resolved |-> [done |-> TRUE,
                                                   target_row |-> rs.target_row,
                                                   nearest |-> rs.best],
                                     out |-> replay_preview(rs.target_row, 0, a.rows,
                                                            a.rows_hint, cadence_min)]

replay_main03(star, idx_buf, a) == replay_main_magic(star, idx_buf, a, MAGIC_A03, MAGIC_B03)

replay_main04(star, idx_buf, a) == replay_main_magic(star, idx_buf, a, MAGIC_A04, MAGIC_B04)

(* ---------------- integers wider than the model's 32 bits -------------- *)

\* Python integers are unbounded; the claims about the primitives range over
\* 64-bit values.  Such an integer is held in two's complement: bits, least
\* significant first, and ext, the sign bit that continues them forever
\* (ext = 0: non-negative, ext = 1: negative).  No top bit equals ext.
RECURSIVE WStrip(_, _)
WStrip(bits, ext) ==
    IF bits # <<>> /\ bits[Len(bits)] = ext
    THEN WStrip(SubSeq(bits, 1, Len(bits) - 1), ext)
    ELSE bits

WInt(bits, ext) == [bits |-> WStrip(bits, ext), ext |-> ext]

WZero == WInt(<<>>, 0)

\* bit k (from 0) of x
WBit(x, k) == IF k < Len(x.bits) THEN x.bits[k + 1] ELSE x.ext

\* x << s
WShl(x, s) ==
    WInt([k \in 1..(Len(x.bits) + s) |-> IF k <= s THEN 0 ELSE x.bits[k - s]], x.ext)

\* x >> s  (arithmetic)
WShr(x, s) == WInt(SubSeq(x.bits, s + 1, Len(x.bits)), x.ext)

\* x ^ y
WXor(x, y) ==
    WInt([k \in 1..Max(Len(x.bits), Len(y.bits)) |-> (WBit(x, k - 1) + WBit(y, k - 1)) % 2],
         (x.ext + y.ext) % 2)

\* x | y
WOr(x, y) ==
    WInt([k \in 1..Max(Len(x.bits), Len(y.bits)) |-> Max(WBit(x, k - 1), WBit(y, k - 1))],
         Max(x.ext, y.ext))

\* x & 0x7F and x & 1, as small integers
WLow7(x) ==
    WBit(x, 0) + 2 * WBit(x, 1) + 4 * WBit(x, 2) + 8 * WBit(x, 3)
    + 16 * WBit(x, 4) + 32 * WBit(x, 5) + 64 * WBit(x, 6)

WLow1(x) == WBit(x, 0)

\* a small b (0 <= b < 128) as a wide integer, and -b for b in {0, 1}
WFrom7(b) == WInt([k \in 1..7 |-> (b \div Pow2(k - 1)) % 2], 0)

WNegBit(b) == WInt(<<>>, b)

\* zigzag_encode and zigzag_decode on wide integers
zigzag_encode_wide(x) == WXor(WShl(x, 1), WShr(x, 63))

\* mutant: the sign is not restored
zigzag_decode_wide_unsigned(u) == WShr(u, 1)

zigzag_decode_wide(u) == WXor(WShr(u, 1), WNegBit(WLow1(u)))

\* mutant: the continuation bit is set on every byte
RECURSIVE varint_encode_wide_allcont(_)
varint_encode_wide_allcont(u) ==
    LET b  == WLow7(u)
        u2 == WShr(u, 7)
    IN  IF u2 # WZero THEN <<b + 128>> \o varint_encode_wide_allcont(u2) ELSE <<b + 128>>

\* varint_encode on a wide integer (u >= 0)
RECURSIVE varint_encode_wide(_)
varint_encode_wide(u) ==
    LET b  == WLow7(u)
        u2 == WShr(u, 7)
    IN  IF u2 # WZero THEN <<b + 128>> \o varint_encode_wide(u2) ELSE <<b>>

\* varint_decode into a wide integer, lim the bound on shift
RECURSIVE varint_decode_wide_from(_, _, _, _, _)
varint_decode_wide_from(buf, i, shift, u, lim) ==
    IF i >= Len(buf) THEN [ok |-> FALSE, err |-> "truncated varint"]
    ELSE LET b  == buf[i + 1]
             u2 == WOr(u, WShl(WFrom7(b % 128), shift))
         IN  IF (b \div 128) % 2 = 0 THEN [ok |-> TRUE, u |-> u2, i |-> i + 1]
             ELSE IF shift + 7 > lim THEN [ok |-> FALSE, err |-> "varint too long"]
             ELSE varint_decode_wide_from(buf, i + 1, shift + 7, u2, lim)

varint_decode_wide01(buf, i) == varint_decode_wide_from(buf, i, 0, WZero, Shift01)

varint_decode_wide02(buf, i) == varint_decode_wide_from(buf, i, 0, WZero, Shift02)

\* read_uvarint of star_case04_crypto_replay.py on values of any width
read_uvarint_wide(buf, pos) ==
    LET r == varint_decode_wide_from(buf, pos, 0, WZero, Shift01)
    IN  IF r.ok THEN r
        ELSE IF r.err = "truncated varint" THEN [ok |-> FALSE, err |-> "unexpected EOF in uvarint"]
        ELSE [ok |-> FALSE, err |-> "uvarint too large"]

(* ----------------------------- dispatcher ----------------------------- *)

\* _die: message on stderr, SystemExit(2)
Die(msg) == [ok |-> FALSE, err |-> msg, exit |-> 2]

\* b"STAR"
STAR4CC == <<83, 84, 65, 82>>

\* bytes.startswith
StartsWith(buf, prefix) == Slice(buf, 0, Len(prefix)) = prefix

\* detect_case_from_star: m = the first 8 bytes of the file
detect_case_from_star(buf) ==
    LET m == Slice(buf, 0, 8) IN
    IF Len(m) < 5 THEN Die("STAR file too small to contain a valid header")
    ELSE IF Slice(m, 0, 4) # STAR4CC THEN Die("Unknown STAR magic (missing 'STAR' prefix)")
    ELSE LET v == m[5] IN
         IF v = 49 \/ v = 1 THEN [ok |-> TRUE, case |-> "case01"]
         ELSE IF v = 50 \/ v = 2 THEN [ok |-> TRUE, case |-> "case02"]
         ELSE IF v = 51 \/ v = 3 THEN [ok |-> TRUE, case |-> "case03"]
         ELSE IF v = 52 \/ v = 4 THEN [ok |-> TRUE, case |-> "case04"]
         ELSE IF StartsWith(m, STAR4CC \o <<49>>) THEN [ok |-> TRUE, case |-> "case01"]
         ELSE IF StartsWith(m, STAR4CC \o <<50>>) THEN [ok |-> TRUE, case |-> "case02"]
         ELSE IF StartsWith(m, STAR4CC \o <<51>>) \/ StartsWith(m, STAR4CC \o <<48, 51>>)
              THEN [ok |-> TRUE, case |-> "case03"]
         ELSE IF StartsWith(m, STAR4CC \o <<52>>) \/ StartsWith(m, STAR4CC \o <<48, 52>>)
              THEN [ok |-> TRUE, case |-> "case04"]
         ELSE Die("Unknown STAR magic (expected one of: case01/case02/case03/case04)")

(* ------------------------- readers and --max_rows --------------------- *)

\* A CSV record is the tuple of its parsed fields; <<>> stands for a record
\* the reader skips (blank line, too few columns, unparsable field).

\* read_spx_csv: bars.append(...); if max_rows is not None and
\* len(bars) >= max_rows: break
RECURSIVE read_spx_csv(_, _, _, _)
read_spx_csv(recs, k, bars, max_rows) ==
    IF k > Len(recs) THEN bars
    ELSE IF recs[k] = <<>> THEN read_spx_csv(recs, k + 1, bars, max_rows)
    ELSE LET b2 == Append(bars, recs[k])
         IN  IF max_rows.some /\ Len(b2) >= max_rows.val THEN b2
             ELSE read_spx_csv(recs, k + 1, b2, max_rows)

\* read_airquality_csv: if max_rows >= 0 and len(ticks) >= max_rows: break,
\* tested before the record is looked at; max_rows = -1 reads all
RECURSIVE read_airquality_csv(_, _, _, _)
read_airquality_csv(recs, k, ticks, max_rows) ==
    IF k > Len(recs) THEN ticks
    ELSE IF max_rows >= 0 /\ Len(ticks) >= max_rows THEN ticks
    ELSE IF recs[k] = <<>> THEN read_airquality_csv(recs, k + 1, ticks, max_rows)
    ELSE read_airquality_csv(recs, k + 1, Append(ticks, recs[k]), max_rows)

\* main of star_case03_power_encode.py: data_lines = data_lines[:max_rows]
limit_lines03(data_lines, max_rows) ==
    IF max_rows.some THEN Slice(data_lines, 0, Min(max_rows.val, Len(data_lines)))
    ELSE data_lines

\* read_rows of star_case04_crypto_replay.py: for i, row in enumerate(r):
\* if max_rows is not None and i >= max_rows: break
RECURSIVE read_rows(_, _, _, _)
read_rows(recs, i, rws, max_rows) ==
    IF i >= Len(recs) THEN rws
    ELSE IF max_rows.some /\ i >= max_rows.val THEN rws
    ELSE read_rows(recs, i + 1, Append(rws, recs[i + 1]), max_rows)

\* cmd_encode, then main of the module of the case: the rows handed to the
\* encoder and the file written, or the exit message
cmd_encode(case, recs, max_rows, scale) ==
    IF max_rows.some /\ max_rows.val < 0 THEN Die("--max_rows must be >= 0")
    ELSE IF case = "case01"
    THEN LET bars == read_spx_csv(recs, 1, <<>>, max_rows)
         IN  [ok |-> TRUE, rows |-> bars, packed |-> encode_star01(bars, scale)]
    ELSE IF case = "case02"
    THEN LET ticks == read_airquality_csv(recs, 1, <<>>,
                                          IF max_rows.some THEN max_rows.val ELSE -1)
         IN  [ok |-> TRUE, rows |-> ticks, packed |-> encode_star02(ticks)]
    ELSE IF case = "case03"
    THEN IF recs = <<>> THEN Die("[STAR] empty input")
         ELSE LET data_lines == limit_lines03(Tail(recs), max_rows)
              IN  [ok |-> TRUE, rows |-> data_lines,
                   packed |-> encode_file03(Head(recs), data_lines)]
    ELSE LET rws == read_rows(recs, 0, <<>>, max_rows)
         IN  [ok |-> TRUE, rows |-> rws, packed |-> encode_case04(rws)]

(* -------------------- Case-01 encoder, step by step ------------------- *)

\* What encode_star appends to out, in order: single bytes (the magic, the
\* tags) and the arguments it passes to varint_encode.
ByteItem(b) == [kind |-> "byte", val |-> b]

VarintItem(u) == [kind |-> "varint", val |-> u]

\* def write_tuple(t): for x in t: out += varint_encode(zigzag_encode(int(x)))
tuple_items(t) == [k \in 1..Len(t) |-> VarintItem(zigzag_encode(t[k]))]

RECURSIVE literal_items(_, _)
literal_items(tup, run) ==
    IF run = 0 THEN <<>>
    ELSE <<ByteItem(1)>> \o tuple_items(tup) \o literal_items(tup, run - 1)

\* the block loop of encode_star
RECURSIVE body_items01(_, _)
body_items01(deltas, i) ==
    IF i >= Len(deltas) THEN <<>>
    ELSE LET tup == deltas[i + 1]
             run == scan_run01(deltas, tup, i + 1, 1)
             blk == IF run >= 3
                    THEN <<ByteItem(0), VarintItem(run)>> \o tuple_items(tup)
                    ELSE literal_items(tup, run)
         IN  blk \o body_items01(deltas, i + run)

\* encode_star(bars, price_scale): price_scale is passed to varint_encode as it is
star_items01(bars, price_scale) ==
    [k \in 1..5 |-> ByteItem(MAGIC_STAR1[k])] \o
    (IF bars = <<>> THEN <<VarintItem(0)>>
     ELSE <<VarintItem(Len(bars)), VarintItem(price_scale)>>
          \o tuple_items(bars[1]) \o body_items01(deltas01(bars), 0))

(* ------------------------------ inputs -------------------------------- *)

RECURSIVE RowsFrom(_, _, _)
RowsFrom(acc, ds, k) ==
    IF k > Len(ds) THEN acc
    ELSE RowsFrom(Append(acc, TupAdd(acc[Len(acc)], ds[k])), ds, k + 1)

\* every row list of at most MaxRows rows: a base row followed by rows whose
\* successive differences are drawn from Deltas
RowLists(Bases, Deltas) ==
    {<<>>} \cup
    { RowsFrom(<<b>>, ds, 1) :
        b \in Bases, ds \in UNION { [1..k -> Deltas] : k \in 0..(MaxRows - 1) } }

Base01 == { <<0, 100, 100, 100, 100, 0>>, <<-3, 6400, 70, -65, 1, 20000>> }

Delta01 == { <<0, 0, 0, 0, 0, 0>>, <<1, 5, -3, 0, 2, 100>>, <<1, -70, 64, 0, 0, -200>> }

PriceScales == {0, 100}

Base02 == { <<0, 0, 0, 0, 0, 0, 0, 0>>, <<600, 26, 119, 166, 113, 136, 489, 7578>> }

Delta02 ==
    { <<60, 0, 0, 0, 0, 0, 0, 0>>,
      <<60, -6, -25, -63, -21, -3, 64, -328>>,
      <<120, 2, 0, 1, 0, 0, 0, 0>> }

\* longest list of data lines handed to the Case-03 encoder
MaxLines == 4

LongLine == [k \in 1..130 |-> 120]

\* data lines: empty, sharing prefixes, and two of 130 and 131 bytes (their
\* lengths take two varint bytes)
Lines03 ==
    { <<>>, <<97, 98>>, <<97, 98, 99>>, <<97, 98, 100>>, LongLine, LongLine \o <<121>> }

Header03 == <<72, 101, 97, 100, 101, 114>>

\* the lines of an input file: the header line, then the data lines
LineLists == { <<Header03>> \o ls : ls \in UNION { [1..k -> Lines03] : k \in 0..MaxLines } }

Rec04(txid, sender, fee, pool, cur, type, status, gas) ==
    [Transaction_ID     |-> txid,
     Sender_Address     |-> sender,
     Receiver_Address   |-> <<48, 120>>,
     Amount             |-> <<49, 46, 53>>,
     Transaction_Fee    |-> fee,
     Timestamp          |-> <<>>,
     Block_ID           |-> <<55>>,
     Mining_Pool        |-> pool,
     Currency           |-> cur,
     Transaction_Type   |-> type,
     Transaction_Status |-> status,
     Gas_Price_Gwei     |-> gas]

BTC == <<66, 84, 67>>

ETH == <<69, 84, 72>>

EmptyRec04 ==
    [c \in {"Transaction_ID", "Sender_Address", "Receiver_Address", "Amount",
            "Transaction_Fee", "Timestamp", "Block_ID", "Mining_Pool", "Currency",
            "Transaction_Type", "Transaction_Status", "Gas_Price_Gwei"} |-> <<>>]

\* records with empty strings, repeated and distinct categorical values and
\* characters of one, two and three UTF-8 bytes
Recs04 ==
    { Rec04(<<116, 49>>, <<97>>, <<>>, <<80>>, BTC, <<>>, <<79, 75>>, <<50>>),
      Rec04(<<116, 50>>, <<233>>, <<48>>, <<233, 80>>, ETH, <<120>>, <<79, 75>>, <<>>),
      Rec04(<<116, 51>>, <<97>>, <<8364>>, <<80>>, BTC, <<120>>, <<8364>>, <<50>>),
      EmptyRec04 }

RowLists04 == UNION { [1..k -> Recs04] : k \in 0..MaxRows }

\* hand-made bodies: up to two blocks with any declared run, or a bad tag
CraftBlocks(Deltas) ==
    { <<0>> \o varint_encode(r) \o write_tuple(d) : r \in 0..(RunCap + 1), d \in Deltas }
    \cup { <<1>> \o write_tuple(d) : d \in Deltas }
    \cup { <<2>> }

CraftBodies(Deltas) ==
    {<<>>} \cup CraftBlocks(Deltas)
    \cup { b1 \o b2 : b1 \in CraftBlocks(Deltas), b2 \in CraftBlocks(Deltas) }

Crafted01 ==
    { MAGIC_STAR1 \o varint_encode(n) \o varint_encode(100)
        \o write_tuple(<<0, 100, 100, 100, 100, 0>>) \o body :
        n \in 0..MaxRows, body \in CraftBodies(Delta01) }

Crafted02 ==
    { STAR_MAGIC \o varint_encode(n) \o write_tuple(<<0, 0, 0, 0, 0, 0, 0, 0>>) \o body :
        n \in 0..MaxRows, body \in CraftBodies(Delta02) }

(* ------------------------------- state -------------------------------- *)

\* pc          position in the encode / index / replay sequence of commands
\* kase        the case the commands are run for
\* rows        the parsed rows handed to the encoder
\* price_scale --price_scale (Case-01)
\* packed      the STAR file written by the encoder
\* decoded     the encoder's own decode of packed ("Proof")
\* index       the index file
\* star_buf    the STAR file handed to replay
\* args        the arguments of the replay command
\* rows_out    what replay returned
VARIABLES pc, kase, rows, price_scale, packed, decoded, index, star_buf, args, rows_out

vars == <<pc, kase, rows, price_scale, packed, decoded, index, star_buf, args, rows_out>>

None == [ok |-> FALSE, err |-> "none"]

NoArgs == [seek |-> [kind |-> "none", val |-> 0], rows |-> 0]

AnchorEvery == 1..3

SeekRows == 0..(MaxRows + 1)

OutRows == 0..3

Init ==
    /\ pc = "parsed"
    /\ kase \in {"case01", "case02"}
    /\ rows \in IF kase = "case01" THEN RowLists(Base01, Delta01)
                ELSE RowLists(Base02, Delta02)
    /\ price_scale \in IF kase = "case01" THEN PriceScales ELSE {0}
    /\ packed = <<>>
    /\ decoded = None
    /\ index = None
    /\ star_buf = <<>>
    /\ args = NoArgs
    /\ rows_out = None

\* main of star_case01_spx_replay.py after the CSV is read
EncodeMain01 ==
    /\ pc = "parsed" /\ kase = "case01"
    /\ packed' = encode_star01(rows, price_scale)
    /\ decoded' = decode_star01(packed')
    /\ star_buf' = packed'
    /\ pc' = "encoded"
    /\ UNCHANGED <<kase, rows, price_scale, index, args, rows_out>>

\* main of star_case02_airquality_replay.py after the CSV is read
EncodeMain02 ==
    /\ pc = "parsed" /\ kase = "case02"
    /\ packed' = encode_star02(rows)
    /\ decoded' = decode_star02(packed')
    /\ star_buf' = packed'
    /\ pc' = "encoded"
    /\ UNCHANGED <<kase, rows, price_scale, index, args, rows_out>>

\* main of star_index_case01.py
IndexMain01(anchor_every) ==
    /\ pc = "encoded" /\ kase = "case01"
    /\ index' = build_index01(packed, anchor_every)
    /\ pc' = "indexed"
    /\ UNCHANGED <<kase, rows, price_scale, packed, decoded, star_buf, args, rows_out>>

\* main of star_index_case02.py
IndexMain02(anchor_every) ==
    /\ pc = "encoded" /\ kase = "case02"
    /\ index' = build_index02(packed, anchor_every)
    /\ pc' = "indexed"
    /\ UNCHANGED <<kase, rows, price_scale, packed, decoded, star_buf, args, rows_out>>

\* main of star_replay_case01.py with --seek_row
ReplayMain01(seek_row, out_rows) ==
    /\ pc = "indexed" /\ kase = "case01" /\ index.ok
    /\ args' = [seek |-> [kind |-> "row", val |-> seek_row], rows |-> out_rows]
    /\ rows_out' = replay_main01(star_buf, index, args'.seek, out_rows)
    /\ pc' = "replayed"
    /\ UNCHANGED <<kase, rows, price_scale, packed, decoded, index, star_buf>>

\* main of star_replay_case02.py
ReplayMain02(seek_row, out_rows) ==
    /\ pc = "indexed" /\ kase = "case02" /\ index.ok
    /\ args' = [seek |-> [kind |-> "row", val |-> seek_row], rows |-> out_rows]
    /\ rows_out' = replay_seek(star_buf, index, args'.seek, out_rows)
    /\ pc' = "replayed"
    /\ UNCHANGED <<kase, rows, price_scale, packed, decoded, index, star_buf>>

Next ==
    \/ EncodeMain01
    \/ EncodeMain02
    \/ \E ae \in AnchorEvery : IndexMain01(ae)
    \/ \E ae \in AnchorEvery : IndexMain02(ae)
    \/ \E sr \in SeekRows, k \in OutRows : ReplayMain01(sr, k)
    \/ \E sr \in SeekRows, k \in OutRows : ReplayMain02(sr, k)

Spec == Init /\ [][Next]_vars

(* hand-made STAR files given to the decoders *)

InitCraft ==
    /\ pc = "crafted"
    /\ kase \in {"case01", "case02"}
    /\ packed \in IF kase = "case01" THEN Crafted01 ELSE Crafted02
    /\ rows = <<>>
    /\ price_scale = 0
    /\ decoded = None
    /\ index = None
    /\ star_buf = packed
    /\ args = NoArgs
    /\ rows_out = None

DecodeStar01 ==
    /\ pc = "crafted" /\ kase = "case01"
    /\ decoded' = decode_star01(packed)
    /\ pc' = "decoded"
    /\ UNCHANGED <<kase, rows, price_scale, packed, index, star_buf, args, rows_out>>

DecodeStar02 ==
    /\ pc = "crafted" /\ kase = "case02"
    /\ decoded' = decode_star02(packed)
    /\ pc' = "decoded"
    /\ UNCHANGED <<kase, rows, price_scale, packed, index, star_buf, args, rows_out>>

NextCraft == DecodeStar01 \/ DecodeStar02

SpecCraft == InitCraft /\ [][NextCraft]_vars

(* an index used with a STAR file it was not built from *)

\* The STAR file handed to replay is replaced by the encoding of the first k
\* rows (the file of an earlier, shorter recording); the index stays.
ReplaceStar01(k) ==
    /\ pc = "indexed" /\ kase = "case01" /\ star_buf = packed /\ k < Len(rows)
    /\ star_buf' = encode_star01(SubSeq(rows, 1, k), price_scale)
    /\ UNCHANGED <<pc, kase, rows, price_scale, packed, decoded, index, args, rows_out>>

ReplaceStar02(k) ==
    /\ pc = "indexed" /\ kase = "case02" /\ star_buf = packed /\ k < Len(rows)
    /\ star_buf' = encode_star02(SubSeq(rows, 1, k))
    /\ UNCHANGED <<pc, kase, rows, price_scale, packed, decoded, index, args, rows_out>>

NextPair ==
    \/ EncodeMain01
    \/ EncodeMain02
    \/ IndexMain01(2)
    \/ IndexMain02(2)
    \/ \E k \in 0..MaxRows : ReplaceStar01(k)
    \/ \E k \in 0..MaxRows : ReplaceStar02(k)
    \/ \E k \in 1..2 : ReplayMain01(0, k)
    \/ \E k \in 1..2 : ReplayMain02(0, k)

SpecPair == Init /\ [][NextPair]_vars

(* Case-03: front-coded lines *)

Init03 ==
    /\ pc = "parsed"
    /\ kase = "case03"
    /\ rows \in LineLists
    /\ price_scale = 0
    /\ packed = <<>>
    /\ decoded = None
    /\ index = None
    /\ star_buf = <<>>
    /\ args = NoArgs
    /\ rows_out = None

\* main of star_case03_power_encode.py: header = lines[0], data = lines[1:]
EncodeMain03 ==
    /\ pc = "parsed" /\ kase = "case03"
    /\ packed' = encode_file03(Head(rows), Tail(rows))
    /\ star_buf' = packed'
    /\ pc' = "encoded"
    /\ UNCHANGED <<kase, rows, price_scale, decoded, index, args, rows_out>>

\* a reader of the file (spec 4.4)
DecodeFile03 ==
    /\ pc = "encoded" /\ kase = "case03"
    /\ decoded' = decode_file03(packed)
    /\ pc' = "decoded"
    /\ UNCHANGED <<kase, rows, price_scale, packed, index, star_buf, args, rows_out>>

Next03 == EncodeMain03 \/ DecodeFile03

Spec03 == Init03 /\ [][Next03]_vars

(* Case-04: crypto transactions *)

Init04 ==
    /\ pc = "parsed"
    /\ kase = "case04"
    /\ rows \in RowLists04
    /\ price_scale = 0
    /\ packed = <<>>
    /\ decoded = None
    /\ index = None
    /\ star_buf = <<>>
    /\ args = NoArgs
    /\ rows_out = None

\* main of star_case04_crypto_replay.py after the CSV is read
EncodeMain04 ==
    /\ pc = "parsed" /\ kase = "case04"
    /\ packed' = encode_case04(rows)
    /\ decoded' = decode_case04(packed')
    /\ star_buf' = packed'
    /\ pc' = "encoded"
    /\ UNCHANGED <<kase, rows, price_scale, index, args, rows_out>>

Next04 == EncodeMain04

Spec04 == Init04 /\ [][Next04]_vars

(* Cases 03/04: index bound to the STAR file by its digest, then replay *)

\* the recordings whose STAR files get an index
BindRows03 ==
    { <<Header03>> \o ls : ls \in UNION { [1..k -> {<<>>, <<97, 98>>, <<97, 98, 99>>}] : k \in 0..2 } }

BindRows04 == UNION { [1..k -> Recs04] : k \in 0..1 }

\* --rows, --anchor_every and --cad of the index builder
IndexRows34 == {0, 3}

IndexCad34 == {1, 5}

\* the arguments of replay: seek_row, seek_time, rows, rows_hint, cadence_min
ReplayArgs34 ==
    [seek_row : {Nil, Some(-2), Some(0), Some(3)}, seek_time : {Nil, Some(5)}, rows : {0, 2},
     rows_hint : {Nil, Some(4)}, cadence_min : {Nil, Some(0), Some(2)}]

InitBind ==
    /\ pc = "parsed"
    /\ kase \in {"case03", "case04"}
    /\ rows \in IF kase = "case03" THEN BindRows03 ELSE BindRows04
    /\ price_scale = 0
    /\ packed = <<>>
    /\ decoded = None
    /\ index = None
    /\ star_buf = <<>>
    /\ args = NoArgs
    /\ rows_out = None

\* main of star_index_case04.py (and the Case-03 builder): reads the STAR
\* file, writes the index file
IndexMain34(n_rows, anchor_every, cad) ==
    /\ pc = "encoded" /\ kase \in {"case03", "case04"}
    /\ index' = IF kase = "case03" THEN index_main03(star_buf, n_rows, anchor_every, cad)
                ELSE index_main04(star_buf, n_rows, anchor_every, cad)
    /\ pc' = "indexed"
    /\ UNCHANGED <<kase, rows, price_scale, packed, decoded, star_buf, args, rows_out>>

\* the STAR file is changed in one byte after the index was built
MutateStar(k) ==
    /\ pc = "indexed" /\ index.ok /\ k \in 1..Len(star_buf)
    /\ star_buf' = [star_buf EXCEPT ![k] = (@ + 1) % 256]
    /\ pc' = "mutated"
    /\ UNCHANGED <<kase, rows, price_scale, packed, decoded, index, args, rows_out>>

\* main of star_replay_case03.py / star_replay_case04.py
ReplayMain34(a) ==
    /\ pc \in {"indexed", "mutated"} /\ index.ok
    /\ args' = a
    /\ rows_out' = IF kase = "case03" THEN replay_main03(star_buf, index.idx, a)
                   ELSE replay_main04(star_buf, index.idx, a)
    /\ pc' = "replayed"
    /\ UNCHANGED <<kase, rows, price_scale, packed, decoded, index, star_buf>>

NextBind ==
    \/ EncodeMain03
    \/ EncodeMain04
    \/ \E n \in IndexRows34, c \in IndexCad34 : IndexMain34(n, 2, c)
    \/ \E k \in {1, 9} : MutateStar(k)
    \/ \E a \in ReplayArgs34 : ReplayMain34(a)

SpecBind == InitBind /\ [][NextBind]_vars

(* the primitives on 64-bit values: zigzag, then varint, and back *)

\* bit patterns of a given length: lowest bit, top bit and the bits between
WidePatterns(Lens) ==
    { [k \in 1..L |-> IF k = 1 THEN lo ELSE IF k = L THEN top ELSE mid] :
        L \in Lens, lo \in {0, 1}, mid \in {0, 1}, top \in {0, 1} }

\* signed values -2^63 <= x < 2^63, among them 0, -1, 2^63 - 1 and -2^63
SignedSamples == { WInt(b, e) : b \in WidePatterns({0, 2, 7, 8, 14, 35, 62, 63}), e \in {0, 1} }

\* unsigned values 0 <= u < 2^64, among them 0, 127, 128, 2^63 - 1, 2^63, 2^64 - 1
UnsignedSamples == { WInt(b, 0) : b \in WidePatterns({0, 2, 7, 8, 14, 35, 56, 62, 63, 64}) }

\* a signed field value x is written as varint(zigzag(x)); an unsigned length
\* or count u is written as varint(u)
InitPrim ==
    /\ kase \in {"signed", "unsigned"}
    /\ rows \in IF kase = "signed" THEN SignedSamples ELSE UnsignedSamples
    /\ pc = IF kase = "signed" THEN "parsed" ELSE "zigzagged"
    /\ index = IF kase = "signed" THEN None ELSE rows
    /\ price_scale = 0
    /\ packed = <<>>
    /\ decoded = None
    /\ star_buf = <<>>
    /\ args = NoArgs
    /\ rows_out = None

ZigzagEncode ==
    /\ pc = "parsed"
    /\ index' = zigzag_encode_wide(rows)
    /\ pc' = "zigzagged"
    /\ UNCHANGED <<kase, rows, price_scale, packed, decoded, star_buf, args, rows_out>>

VarintEncode ==
    /\ pc = "zigzagged"
    /\ packed' = varint_encode_wide(index)
    /\ pc' = "encoded"
    /\ UNCHANGED <<kase, rows, price_scale, decoded, index, star_buf, args, rows_out>>

VarintDecode01 ==
    /\ pc = "encoded"
    /\ decoded' = varint_decode_wide01(packed, 0)
    /\ pc' = "decoded01"
    /\ UNCHANGED <<kase, rows, price_scale, packed, index, star_buf, args, rows_out>>

VarintDecode02 ==
    /\ pc = "encoded"
    /\ decoded' = varint_decode_wide02(packed, 0)
    /\ pc' = "decoded02"
    /\ UNCHANGED <<kase, rows, price_scale, packed, index, star_buf, args, rows_out>>

ZigzagDecode ==
    /\ pc \in {"decoded01", "decoded02"} /\ decoded.ok
    /\ rows_out' = zigzag_decode_wide(decoded.u)
    /\ pc' = "done"
    /\ UNCHANGED <<kase, rows, price_scale, packed, decoded, index, star_buf, args>>

\* the decoded value is written again
ZigzagReencode ==
    /\ pc = "done"
    /\ star_buf' = zigzag_encode_wide(rows_out)
    /\ pc' = "reencoded"
    /\ UNCHANGED <<kase, rows, price_scale, packed, decoded, index, args, rows_out>>

NextPrim ==
    \/ ZigzagEncode
    \/ VarintEncode
    \/ VarintDecode01
    \/ VarintDecode02
    \/ ZigzagDecode
    \/ ZigzagReencode

SpecPrim == InitPrim /\ [][NextPrim]_vars

(* the dispatcher looking at a file *)

\* files written by the four encoders
EncodedFiles ==
    { encode_star01(r, 100) : r \in { rs \in RowLists(Base01, Delta01) : Len(rs) <= 2 } }
    \cup { encode_star02(r) : r \in { rs \in RowLists(Base02, Delta02) : Len(rs) <= 2 } }
    \cup { encode_file03(Head(ls), Tail(ls)) : ls \in BindRows03 }
    \cup { encode_case04(r) : r \in BindRows04 }

\* other files: short ones, a wrong prefix, "STAR" followed by any version
\* byte and a few continuations
OtherFiles ==
    { <<>>, <<83>>, STAR4CC }
    \cup { pre \o <<v>> \o tl :
             pre \in { STAR4CC, <<83, 84, 65, 83>> },
             v \in {0, 1, 2, 3, 4, 5, 48, 49, 50, 51, 52, 53, 65},
             tl \in { <<>>, <<65>>, <<66, 0>>, <<51, 0, 1>>, <<52, 0, 1>>, <<4, 79, 70>> } }

InitDispatch ==
    /\ pc = "file"
    /\ kase = "any"
    /\ star_buf \in EncodedFiles \cup OtherFiles
    /\ rows = <<>>
    /\ price_scale = 0
    /\ packed = <<>>
    /\ decoded = None
    /\ index = None
    /\ args = NoArgs
    /\ rows_out = None

\* cmd_index / cmd_replay: case = detect_case_from_star(args.star)
DetectCase ==
    /\ pc = "file"
    /\ decoded' = detect_case_from_star(star_buf)
    /\ pc' = "detected"
    /\ UNCHANGED <<kase, rows, price_scale, packed, index, star_buf, args, rows_out>>

NextDispatch == DetectCase

SpecDispatch == InitDispatch /\ [][NextDispatch]_vars

(* Case-01: seek by date *)

\* day counts given as --seek_time, from before the first to after the last
SeekDays == (-4)..5

InitTime == Init /\ kase = "case01"

\* main of star_replay_case01.py with --seek_time and no --seek_row
ReplayTime01(seek_days, out_rows) ==
    /\ pc = "indexed" /\ kase = "case01" /\ index.ok
    /\ args' = [seek |-> [kind |-> "time", val |-> seek_days], rows |-> out_rows]
    /\ rows_out' = replay_main01(star_buf, index, args'.seek, out_rows)
    /\ pc' = "replayed"
    /\ UNCHANGED <<kase, rows, price_scale, packed, decoded, index, star_buf>>

NextTime ==
    \/ EncodeMain01
    \/ \E ae \in AnchorEvery : IndexMain01(ae)
    \/ \E sd \in SeekDays, k \in OutRows : ReplayTime01(sd, k)

SpecTime == InitTime /\ [][NextTime]_vars

(* the four replay engines side by side: a recording of any case is encoded,
   indexed and replayed with a row or time seek *)

InitSeek == Init \/ InitBind

NextSeek ==
    \/ Next
    \/ EncodeMain03
    \/ EncodeMain04
    \/ \E n \in IndexRows34, c \in IndexCad34 : IndexMain34(n, 2, c)
    \/ \E a \in ReplayArgs34 : kase \in {"case03", "case04"} /\ ReplayMain34(a)

SpecSeek == InitSeek /\ [][NextSeek]_vars

(* the index builder of Cases 03/04 over a range of --rows, --anchor_every
   and --cad *)

AnchorRowsArg == 0..6

AnchorEveryArg == 1..4

\* main of star_index_case04.py (and the Case-03 builder), its arguments kept
IndexArgs34(n_rows, anchor_every, cad) ==
    /\ pc = "encoded" /\ kase \in {"case03", "case04"}
    /\ args' = [rows |-> n_rows, anchor_every |-> anchor_every, cad |-> cad]
    /\ index' = IF kase = "case03" THEN index_main03(star_buf, n_rows, anchor_every, cad)
                ELSE index_main04(star_buf, n_rows, anchor_every, cad)
    /\ pc' = "indexed"
    /\ UNCHANGED <<kase, rows, price_scale, packed, decoded, star_buf, rows_out>>

NextAnchors ==
    \/ EncodeMain03
    \/ EncodeMain04
    \/ \E n \in AnchorRowsArg, ae \in AnchorEveryArg, c \in IndexCad34 : IndexArgs34(n, ae, c)

SpecAnchors == InitBind /\ [][NextAnchors]_vars

(* byte strings given to the varint decoders: continuation bytes, with or
   without a final byte *)

MaxVarintBytes == 12

VarintBuffers ==
    { [k \in 1..L |-> c] \o t :
        L \in 0..MaxVarintBytes, c \in {128, 255}, t \in {<<>>, <<0>>, <<1>>, <<127>>} }

InitVarint ==
    /\ pc = "crafted"
    /\ kase = "varint"
    /\ packed \in VarintBuffers
    /\ rows = <<>>
    /\ price_scale = 0
    /\ decoded = None
    /\ index = None
    /\ star_buf = packed
    /\ args = NoArgs
    /\ rows_out = None

\* varint_decode of the Case-01 codec, index and replay modules
DecodeVarint01 ==
    /\ pc = "crafted" /\ kase = "varint"
    /\ decoded' = varint_decode_wide01(packed, 0)
    /\ pc' = "decoded01"
    /\ UNCHANGED <<kase, rows, price_scale, packed, index, star_buf, args, rows_out>>

\* varint_decode of the Case-02 module
DecodeVarint02 ==
    /\ pc = "crafted" /\ kase = "varint"
    /\ decoded' = varint_decode_wide02(packed, 0)
    /\ pc' = "decoded02"
    /\ UNCHANGED <<kase, rows, price_scale, packed, index, star_buf, args, rows_out>>

\* read_uvarint of the Case-04 module
ReadUvarint04 ==
    /\ pc = "crafted" /\ kase = "varint"
    /\ decoded' = read_uvarint_wide(packed, 0)
    /\ pc' = "decoded04"
    /\ UNCHANGED <<kase, rows, price_scale, packed, index, star_buf, args, rows_out>>

NextVarint == DecodeVarint01 \/ DecodeVarint02 \/ ReadUvarint04

SpecVarint == InitVarint /\ [][NextVarint]_vars

(* the decoders on hand-made files and on files cut short after encoding *)

\* no encoded file of the model is longer
MaxPrefix == 20 * (MaxRows + 1)

InitMalformed == Init \/ InitCraft

\* the file written by the encoder loses its tail: packed keeps the first k
\* bytes, star_buf the whole file
TruncateStar(k) ==
    /\ pc = "encoded" /\ k \in 0..(Len(packed) - 1)
    /\ packed' = Slice(packed, 0, k)
    /\ pc' = "crafted"
    /\ UNCHANGED <<kase, rows, price_scale, decoded, index, star_buf, args, rows_out>>

NextMalformed ==
    \/ EncodeMain01
    \/ EncodeMain02
    \/ \E k \in 0..MaxPrefix : TruncateStar(k)
    \/ DecodeStar01
    \/ DecodeStar02

SpecMalformed == InitMalformed /\ [][NextMalformed]_vars

(* the dispatcher's encode command with --max_rows *)

MaxCsv == 3

\* the records of a CSV file, some of them skipped by the reader
CsvFiles ==
    IF kase = "case01"
    THEN UNION { [1..k -> {<<>>, <<0, 100, 100, 100, 100, 0>>, <<1, 105, 97, 100, 102, 100>>}] :
                 k \in 0..MaxCsv }
    ELSE IF kase = "case02"
    THEN UNION { [1..k -> {<<>>, <<0, 0, 0, 0, 0, 0, 0, 0>>, <<60, 26, 119, 166, 113, 136, 489, 7578>>}] :
                 k \in 0..MaxCsv }
    ELSE IF kase = "case03"
    THEN { <<Header03>> \o ls : ls \in UNION { [1..k -> {<<>>, <<97, 98>>, <<97, 98, 99>>}] : k \in 0..MaxCsv } }
    ELSE UNION { [1..k -> Recs04] : k \in 0..MaxCsv }

MaxRowsArg == {Nil, Some(-1), Some(0), Some(1), Some(2), Some(MaxCsv + 1)}

InitLimit ==
    /\ pc = "csv"
    /\ kase \in {"case01", "case02", "case03", "case04"}
    /\ rows \in CsvFiles
    /\ args \in [max_rows : MaxRowsArg]
    /\ price_scale = 100
    /\ packed = <<>>
    /\ decoded = None
    /\ index = None
    /\ star_buf = <<>>
    /\ rows_out = None

\* star_run.py encode --case ... --csv ... --out ... [--max_rows N]
CmdEncode ==
    /\ pc = "csv"
    /\ LET r == cmd_encode(kase, rows, args.max_rows, price_scale)
       IN  IF r.ok
           THEN /\ rows_out' = r.rows
                /\ packed' = r.packed
                /\ star_buf' = r.packed
                /\ pc' = "encoded"
           ELSE /\ rows_out' = r
                /\ pc' = "died"
                /\ UNCHANGED <<packed, star_buf>>
    /\ UNCHANGED <<kase, rows, price_scale, decoded, index, args>>

NextLimit == CmdEncode

SpecLimit == InitLimit /\ [][NextLimit]_vars

(* encode_star of Case-01 run step by step, one iteration of the loop of
   varint_encode at a time *)

\* bytes of out that are kept; of a longer out the model keeps the first
\* MaxOut bytes and the parity of the number of bytes behind them
MaxOut == 80

\* --price_scale: argparse type=int
PriceScaleArg == {-100, -1, 0, 1, 100}

\* recordings of up to two rows, and one with a run of four equal deltas
TermBars ==
    { RowsFrom(<<b>>, ds, 1) : b \in Base01, ds \in UNION { [1..k -> Delta01] : k \in 0..1 } }
    \cup { <<>>, RowsFrom(<<<<0, 100, 100, 100, 100, 0>>>>, [k \in 1..4 |-> <<1, 5, -3, 0, 2, 100>>], 1) }

InitTerm ==
    /\ pc = "parsed"
    /\ kase = "case01"
    /\ rows \in TermBars
    /\ price_scale \in PriceScaleArg
    /\ packed = <<>>
    /\ decoded = None
    /\ index = 0
    /\ star_buf = <<>>
    /\ args = <<>>
    /\ rows_out = 0

\* out.append / out.extend, out cut at MaxOut bytes
Extend(out, b) == IF Len(out) < MaxOut THEN Append(out, b) ELSE out

\* the parity of the bytes behind the cut after one more byte is written
Beyond(out, parity) == IF Len(out) < MaxOut THEN parity ELSE 1 - parity

\* encode_star is called: args holds what is still to be written
EncodeStarCall ==
    /\ pc = "parsed"
    /\ args' = star_items01(rows, price_scale)
    /\ pc' = "writing"
    /\ UNCHANGED <<kase, rows, price_scale, packed, decoded, index, star_buf, rows_out>>

\* a single byte is appended
AppendByte ==
    /\ pc = "writing" /\ args # <<>> /\ Head(args).kind = "byte"
    /\ packed' = Extend(packed, Head(args).val)
    /\ rows_out' = Beyond(packed, rows_out)
    /\ args' = Tail(args)
    /\ UNCHANGED <<pc, kase, rows, price_scale, decoded, index, star_buf>>

\* varint_encode(u) is called
VarintEncodeCall ==
    /\ pc = "writing" /\ args # <<>> /\ Head(args).kind = "varint"
    /\ index' = Head(args).val
    /\ args' = Tail(args)
    /\ pc' = "varint"
    /\ UNCHANGED <<kase, rows, price_scale, packed, decoded, star_buf, rows_out>>

\* one iteration of `while True` in varint_encode:
\* b = u & 0x7F; u >>= 7; if u: out.append(b | 0x80) else: out.append(b); break
VarintEncodeLoop ==
    /\ pc = "varint"
    /\ LET b == index % 128
           u == index \div 128
       IN  IF u # 0
           THEN /\ packed' = Extend(packed, b + 128)
                /\ index' = u
                /\ pc' = "varint"
           ELSE /\ packed' = Extend(packed, b)
                /\ index' = 0
                /\ pc' = "writing"
    /\ rows_out' = Beyond(packed, rows_out)
    /\ UNCHANGED <<kase, rows, price_scale, decoded, star_buf, args>>

\* return bytes(out), meta
EncodeStarReturn ==
    /\ pc = "writing" /\ args = <<>>
    /\ star_buf' = packed
    /\ pc' = "returned"
    /\ UNCHANGED <<kase, rows, price_scale, packed, decoded, index, args, rows_out>>

NextTerm ==
    \/ EncodeStarCall
    \/ AppendByte
    \/ VarintEncodeCall
    \/ VarintEncodeLoop
    \/ EncodeStarReturn

\* the interpreter keeps running the call: every enabled step is taken
SpecTerm == InitTerm /\ [][NextTerm]_vars /\ WF_vars(NextTerm)

(* ------------------------------ claims -------------------------------- *)

Encoded == pc \in {"encoded", "indexed", "replayed"}

\* the index file has just been written (later commands leave it unchanged)
Indexed == pc = "indexed"

\* C1: Case-01 round trip.  Decoding the blob the Case-01 encoder wrote for a
\* row list returns that row list, field by field, for every price_scale.
C1_RoundTrip01 ==
    (Encoded /\ kase = "case01") => (decoded.ok /\ decoded.rows = rows)

\* a Case-01 input with a run of 1, of 2 and of 3 or more equal deltas has
\* been encoded and decoded
C1_Witness ==
    /\ Encoded /\ kase = "case01" /\ Len(rows) = MaxRows
    /\ \E k \in 1..(Len(rows) - 3) :
         /\ TupSub(rows[k + 1], rows[k]) = TupSub(rows[k + 2], rows[k + 1])
         /\ TupSub(rows[k + 2], rows[k + 1]) = TupSub(rows[k + 3], rows[k + 2])
    /\ decoded.ok /\ decoded.rows = rows

\* C2: Case-02 round trip.  Decoding the blob the Case-02 encoder wrote for a
\* tick list returns that tick list, field by field.
C2_RoundTrip02 ==
    (Encoded /\ kase = "case02") => (decoded.ok /\ decoded.rows = rows)

\* a Case-02 input with a run of at least 3 equal deltas followed by a
\* different delta has been encoded and decoded
C2_Witness ==
    /\ Encoded /\ kase = "case02" /\ Len(rows) = MaxRows
    /\ TupSub(rows[2], rows[1]) = TupSub(rows[3], rows[2])
    /\ TupSub(rows[3], rows[2]) = TupSub(rows[4], rows[3])
    /\ TupSub(rows[4], rows[3]) # TupSub(rows[5], rows[4])
    /\ decoded.ok /\ decoded.rows = rows

(* block structure of a body, as the claims about anchors refer to it *)

\* the blocks of buf from position pos on: offset of the tag byte, tag, run
\* (1 for a tag-1 block) and delta tuple; nf fields per tuple
RECURSIVE Blocks(_, _, _)
Blocks(buf, pos, nf) ==
    IF pos >= Len(buf) \/ buf[pos + 1] \notin {0, 1} THEN <<>>
    ELSE LET r == IF buf[pos + 1] = 0 THEN varint_decode_from(buf, pos + 1, 0, 0, Shift01)
                  ELSE [ok |-> TRUE, u |-> 1, i |-> pos + 1]
         IN  IF ~r.ok THEN <<>>
             ELSE LET t == read_ints(buf, r.i, nf, <<>>, Shift01)
                  IN  IF ~t.ok THEN <<>>
                      ELSE <<[off |-> pos, tag |-> buf[pos + 1], run |-> r.u, tup |-> t.vals]>>
                           \o Blocks(buf, t.i, nf)

NFields == IF kase = "case01" THEN 6 ELSE 8

\* the row count n of the header of buf
HeaderN(buf) ==
    IF kase = "case01" THEN varint_decode01(buf, 5).u ELSE varint_decode02(buf, 6).u

\* the position of the first body byte of buf
BodyStart(buf) ==
    IF kase = "case01" THEN parse_star1_header(buf).i
    ELSE LET rn == varint_decode02(buf, 6)
         IN  IF rn.u = 0 THEN rn.i ELSE read_ints(buf, rn.i, 8, <<>>, Shift02).i

BodyBlocks(buf) == Blocks(buf, BodyStart(buf), NFields)

RECURSIVE SumRunsBefore(_, _, _)
SumRunsBefore(blocks, off, k) ==
    IF k > Len(blocks) \/ blocks[k].off >= off THEN 0
    ELSE blocks[k].run + SumRunsBefore(blocks, off, k + 1)

IsBlockStart(buf, off) ==
    /\ off < Len(buf)
    /\ buf[off + 1] \in {0, 1}
    /\ LET bs == BodyBlocks(buf) IN \E k \in 1..Len(bs) : bs[k].off = off

\* rows [a, b) of the full decode
FullSlice(a, b) == Slice(decoded.rows, a, b)

\* C3: replay equivalence, Case-02.  replay_seek returns rows
\* [seek_row, min(n, seek_row + rows)) of the full decode, also when seek_row
\* lies strictly inside a tag-0 run; for seek_row >= n it returns nothing.
C3_ReplayEquiv02 ==
    (pc = "replayed" /\ kase = "case02" /\ Len(rows) >= 1 /\ args.rows >= 1)
    => /\ rows_out.ok
       /\ rows_out.rows = FullSlice(args.seek.val, Min(Len(rows), args.seek.val + args.rows))

\* C4: replay equivalence, Case-01 row seek.  The anchor main chooses and
\* replay_from give the pairs (r, row r of the full decode) for r in
\* [seek_row, min(n, seek_row + rows)); for seek_row >= n they give nothing.
C4_ReplayEquiv01 ==
    (pc = "replayed" /\ kase = "case01" /\ Len(rows) >= 1 /\ args.rows >= 1)
    => /\ rows_out.ok
       /\ LET sl == FullSlice(args.seek.val, Min(Len(rows), args.seek.val + args.rows))
          IN  rows_out.rows = [k \in 1..Len(sl) |-> <<args.seek.val + k - 1, sl[k]>>]

\* a Case-01 replay started from an anchor below seek_row, inside an RLE
\* block, that returned two or more rows
C4_Witness ==
    /\ pc = "replayed" /\ kase = "case01" /\ Len(rows) = MaxRows
    /\ index.anchor_every = 3 /\ args.seek.val = 2 /\ args.rows >= 2
    /\ \E k \in 1..Len(BodyBlocks(packed)) :
          /\ BodyBlocks(packed)[k].tag = 0
          /\ BodyBlocks(packed)[k].off = BodyStart(packed)
    /\ rows_out.ok /\ Len(rows_out.rows) >= 2

\* C5 (as claimed): every anchor's byte_offset lies inside the blob, on the
\* tag byte (0x00 or 0x01) that starts a block; row-0 and last anchor included.
C5_AnchorOnTag ==
    (Indexed /\ index.ok)
    => \A k \in 1..Len(index.anchors) : IsBlockStart(packed, index.anchors[k].off)

\* C5 (amended): an anchor for a row below n - 1 points at the tag byte that
\* starts a block; an anchor for the final row n - 1 (and the only anchor of
\* an empty file) points at the end of the blob, the boundary after the last
\* block.  No anchor points inside a block.
C5_AnchorOnBoundary ==
    (Indexed /\ index.ok)
    => \A k \in 1..Len(index.anchors) :
          LET a == index.anchors[k]
          IN  IF a.row < HeaderN(packed) - 1
              THEN IsBlockStart(packed, a.off)
              ELSE a.off = Len(packed)

\* an index whose anchors include one at the start of a later block and one
\* at the end of the blob
C5_Witness ==
    /\ Indexed /\ index.ok /\ Len(rows) = MaxRows
    /\ \E k \in 1..Len(index.anchors) :
          /\ index.anchors[k].row > 0
          /\ IsBlockStart(packed, index.anchors[k].off)
    /\ \E k \in 1..Len(index.anchors) : index.anchors[k].off = Len(packed)

\* decoding resumed at an anchor: the rows from the anchor's row on
ResumeAt(a) ==
    IF kase = "case01"
    THEN decode_body01(packed, a.off, <<a.state>>, Len(decoded.rows) - a.row)
    ELSE decode_body02(packed, a.off, <<a.state>>, Len(decoded.rows) - a.row)

\* C6: anchor snapshot consistency.  For n >= 1 every anchor's state is row
\* `row` of the full decode, the runs of the blocks before byte_offset sum to
\* row, resuming at the anchor reproduces the rest of the full decode, and the
\* first anchor is row 0 at the body start with the base row.
C6_AnchorSnapshot ==
    (Indexed /\ index.ok /\ Len(rows) >= 1)
    => /\ index.anchors[1] = [row |-> 0, off |-> BodyStart(packed), state |-> decoded.rows[1]]
       /\ \A k \in 1..Len(index.anchors) :
             LET a == index.anchors[k]
             IN  /\ a.row < Len(decoded.rows)
                 /\ a.state = decoded.rows[a.row + 1]
                 /\ SumRunsBefore(BodyBlocks(packed), a.off, 1) = a.row
                 /\ ResumeAt(a) = [ok |-> TRUE,
                                   rows |-> FullSlice(a.row, Len(decoded.rows))]

\* an index with an anchor behind an RLE block, in each of the two cases
C6_Witness ==
    /\ Indexed /\ index.ok /\ Len(rows) = MaxRows
    /\ \E k \in 2..Len(index.anchors) :
          /\ SumRunsBefore(BodyBlocks(packed), index.anchors[k].off, 1) = index.anchors[k].row
          /\ index.anchors[k].row >= 3
          /\ BodyBlocks(packed)[1].tag = 0

\* C7: exact row count.  Whenever decode_star (Case-01 or Case-02) returns
\* normally, the list it returns has exactly n rows, n the header's row count,
\* also for hand-made bodies whose tag-0 run exceeds the rows still missing.
C7_ExactRowCount ==
    (pc = "decoded" /\ decoded.ok) => Len(decoded.rows) = HeaderN(packed)

\* C8: Case-04 round trip.  decode_case04(encode_case04(rows)) equals rows,
\* record by record and field by field, the empty list included.
C8_RoundTrip04 ==
    (pc = "encoded" /\ kase = "case04") => (decoded.ok /\ decoded.rows = rows)

\* a list with an all-empty record, a repeated and a new Currency and a
\* multi-byte character has been encoded and decoded
C8_Witness ==
    /\ pc = "encoded" /\ kase = "case04" /\ Len(rows) >= 4
    /\ rows[1]["Currency"] = BTC /\ rows[2]["Currency"] = ETH /\ rows[3]["Currency"] = BTC
    /\ rows[3]["Transaction_Fee"] = <<8364>>
    /\ rows[4] = EmptyRec04
    /\ decoded.ok /\ decoded.rows = rows

\* C9: Case-03 round trip.  Reading the records (p, s, suffix) of the stream
\* until end of input and rebuilding each line from its predecessor gives
\* back the data lines, as many and in order.
C9_RoundTrip03 ==
    (pc = "decoded" /\ kase = "case03")
    => (decoded.ok /\ decoded.lines = Tail(rows) /\ decoded.header = Head(rows))

\* data lines with an empty line, two identical consecutive lines and a
\* shared prefix have been encoded and read back
C9_Witness ==
    /\ pc = "decoded" /\ kase = "case03" /\ Len(rows) = MaxLines + 1
    /\ rows[2] = <<>> /\ rows[3] = <<97, 98, 99>> /\ rows[4] = rows[3]
    /\ rows[5] = <<97, 98, 100>>
    /\ decoded.ok /\ decoded.lines = Tail(rows)

\* C10: index/STAR pairing.  Whenever the n_rows of the index differs from
\* the row count of the STAR header, replay (Case-01 and Case-02) fails and
\* emits no row.
C10_PairingChecked ==
    (pc = "replayed" /\ index.n_rows # HeaderN(star_buf)) => ~rows_out.ok

\* C11: index binding (Cases 03/04).  When replay is run with a seek key and
\* the digest of the STAR file differs from the 32 bytes stored in the index
\* header, it fails with the binding-mismatch error, resolve_seek has not
\* returned and no (row, t_min) pair is printed; when they are equal the
\* binding error is not raised.  With or without --cadence_min.
StoredDigest ==
    LET p0 == Len(IF kase = "case03" THEN MAGIC_A03 ELSE MAGIC_A04) + 24
    IN  Slice(index.idx, p0, p0 + 32)

Replayed34 ==
    /\ pc = "replayed" /\ kase \in {"case03", "case04"}
    /\ (args.seek_row.some \/ args.seek_time.some)

C11_BindingChecked ==
    Replayed34 =>
        IF sha_digest(star_buf) # StoredDigest
        THEN /\ ~rows_out.ok /\ rows_out.err = "IDX binding mismatch"
             /\ ~rows_out.resolved.done /\ rows_out.out = <<>>
        ELSE rows_out.err # "IDX binding mismatch"

\* a STAR file changed in one byte was replayed with a cadence override and
\* rejected
C11_Witness ==
    /\ Replayed34 /\ star_buf # packed /\ args.cadence_min.some
    /\ sha_digest(star_buf) # StoredDigest
    /\ rows_out.err = "IDX binding mismatch"

\* C12: varint law.  For every u with 0 <= u < 2^63, decoding the encoding of
\* u from position 0 gives u and the length of the encoding, under the
\* decoder of either module; the encoding has 1 to 10 bytes, every byte but
\* the last with the high bit set, the last without.
VarintDecoded == pc \in {"decoded01", "decoded02"}

C12_VarintLaw ==
    (VarintDecoded /\ Len(index.bits) <= 63) =>
        /\ decoded.ok /\ decoded.u = index /\ decoded.i = Len(packed)
        /\ Len(packed) >= 1 /\ Len(packed) <= 10
        /\ \A k \in 1..(Len(packed) - 1) : packed[k] >= 128
        /\ packed[Len(packed)] < 128

\* 2^63 - 1, the largest value of the law, was encoded in nine bytes and read
\* back by the Case-01 decoder
C12_Witness ==
    /\ pc = "decoded01" /\ index = WInt([k \in 1..63 |-> 1], 0)
    /\ Len(packed) = 9 /\ decoded.ok /\ decoded.u = index

\* C13: zigzag law.  For every x with -2^63 <= x < 2^63, zigzag_encode(x) is
\* 2x for x >= 0 and -2x - 1 for x < 0, lies in [0, 2^64), and zigzag_decode
\* gives x back; every u in [0, 2^64) is the code of its decoding, which lies
\* in [-2^63, 2^63) (so the map is one-to-one and onto).
WNot(x) == WInt([k \in 1..Len(x.bits) |-> 1 - x.bits[k]], 1 - x.ext)

C13_ZigzagLaw ==
    /\ (kase = "signed" /\ pc # "parsed") =>
           /\ index.ext = 0 /\ Len(index.bits) <= 64
           /\ index = IF rows.ext = 0 THEN WShl(rows, 1) ELSE WNot(WShl(rows, 1))
    /\ (kase = "signed" /\ pc = "done") => rows_out = rows
    /\ (kase = "unsigned" /\ pc = "reencoded") =>
           /\ Len(rows_out.bits) <= 63
           /\ star_buf = rows

\* -2^63 was encoded to 2^64 - 1, written, read and decoded back
C13_Witness ==
    /\ kase = "signed" /\ pc = "done"
    /\ rows = WInt([k \in 1..63 |-> 0], 1)
    /\ index = WInt([k \in 1..64 |-> 1], 0) /\ rows_out = rows

\* C14: Case-04 dictionaries.  In the bytes written by encode_case04, for
\* each of Mining_Pool, Currency, Transaction_Type, Transaction_Status (in
\* that order) the dictionary holds every distinct value of the column once,
\* in the order of first occurrence in the rows, and the code c written for
\* a row satisfies 0 <= c < |dict| and dict[c] = the row's value.  Encoding
\* the same rows again gives the same bytes.
CatCols == <<"Mining_Pool", "Currency", "Transaction_Type", "Transaction_Status">>

\* the four codes of each row, read from the row section of the blob
RECURSIVE WrittenCodes(_, _, _, _)
WrittenCodes(blob, pos, nrows, acc) ==
    IF nrows = 0 THEN acc
    ELSE LET lit == read_strs(blob, pos, 7, <<>>)
             c1  == read_uvarint(blob, lit.i)
             c2  == read_uvarint(blob, c1.i)
             c3  == read_uvarint(blob, c2.i)
             c4  == read_uvarint(blob, c3.i)
             gas == read_str(blob, c4.i)
         IN  WrittenCodes(blob, gas.i, nrows - 1, Append(acc, <<c1.u, c2.u, c3.u, c4.u>>))

FirstPos(rws, col, v) == CHOOSE k \in 1..Len(rws) :
    rws[k][col] = v /\ \A j \in 1..(k - 1) : rws[j][col] # v

C14_Dictionaries ==
    (pc = "encoded" /\ kase = "case04") =>
        LET rd    == read_dicts(packed, 16, 1, <<>>)
            codes == WrittenCodes(packed, rd.i, Len(rows), <<>>)
        IN  /\ rd.ok
            /\ \A c \in 1..4 :
                 LET dict == rd.dicts[c]
                     col  == CatCols[c]
                 IN  /\ { dict[i] : i \in 1..Len(dict) } = { rows[k][col] : k \in 1..Len(rows) }
                     /\ \A i, j \in 1..Len(dict) :
                          i < j => /\ dict[i] # dict[j]
                                   /\ FirstPos(rows, col, dict[i]) < FirstPos(rows, col, dict[j])
                     /\ \A k \in 1..Len(rows) :
                          /\ codes[k][c] >= 0 /\ codes[k][c] < Len(dict)
                          /\ dict[codes[k][c] + 1] = rows[k][col]
            /\ encode_case04(rows) = packed

\* Currency values BTC, ETH, BTC were written with dictionary [BTC, ETH] and
\* codes 0, 1, 0
C14_Witness ==
    /\ pc = "encoded" /\ kase = "case04" /\ Len(rows) = 3
    /\ rows[1].Currency = BTC /\ rows[2].Currency = ETH /\ rows[3].Currency = BTC
    /\ LET rd    == read_dicts(packed, 16, 1, <<>>)
           codes == WrittenCodes(packed, rd.i, 3, <<>>)
       IN  /\ rd.dicts[2] = <<BTC, ETH>>
           /\ <<codes[1][2], codes[2][2], codes[3][2]>> = <<0, 1, 0>>

\* C15: dispatcher classification.  detect_case_from_star returns case c
\* exactly when the file begins with the magic written by the encoder of
\* case c ("STAR1", "STAR2A", "STAR03\x00\x01", "STAR4\x04OF"), and exits
\* with status 2 for every file that begins with none of them.
EncoderMagic ==
    [case01 |-> MAGIC_STAR1, case02 |-> STAR_MAGIC, case03 |-> MAGIC03, case04 |-> MAGIC8]

C15_ExactMagic ==
    pc = "detected" =>
        /\ \A c \in DOMAIN EncoderMagic :
             (decoded.ok /\ decoded.case = c) <=> StartsWith(star_buf, EncoderMagic[c])
        /\ (\A c \in DOMAIN EncoderMagic : ~StartsWith(star_buf, EncoderMagic[c]))
             => (~decoded.ok /\ decoded.exit = 2)

\* C16: replay window bound.  For every rows >= 0 (rows = 0 included) and
\* every seek row, the Case-01 replay and the Case-02 replay_seek return at
\* most `rows` rows.
C16_WindowBound ==
    (pc = "replayed" /\ rows_out.ok) => Len(rows_out.rows) <= args.rows

\* C17: trailing anchor.  For every encoded recording of n >= 1 rows and every
\* anchor_every >= 1, the last anchor of the index built by the Case-01 and
\* by the Case-02 builder has row n - 1 and the last row as its snapshot.
C17_TrailingAnchor ==
    (Indexed /\ index.ok /\ Len(rows) >= 1)
    => LET last == index.anchors[Len(index.anchors)]
       IN  last.row = Len(rows) - 1 /\ last.state = rows[Len(rows)]

\* C18: Case-01 time seek.  With d_days non-decreasing over the rows (equal
\* consecutive dates allowed), for every seek_days and rows >= 1 the replay
\* emits first the lowest-indexed row r0 with d_days >= seek_days, then the
\* rows after it, up to `rows` rows or the last row; nothing when no row has
\* d_days >= seek_days.
NonDecreasingDays(rws) == \A k \in 1..(Len(rws) - 1) : rws[k][1] <= rws[k + 1][1]

TimeReplayed ==
    /\ pc = "replayed" /\ kase = "case01" /\ args.seek.kind = "time"
    /\ args.rows >= 1 /\ NonDecreasingDays(rows)

FirstOnOrAfter(rws, day) ==
    CHOOSE r \in 1..Len(rws) : rws[r][1] >= day /\ \A j \in 1..(r - 1) : rws[j][1] < day

C18_TimeSeek ==
    TimeReplayed =>
        /\ rows_out.ok
        /\ IF \A r \in 1..Len(rows) : rows[r][1] < args.seek.val
           THEN rows_out.rows = <<>>
           ELSE LET r0 == FirstOnOrAfter(rows, args.seek.val)
                    cnt == Min(args.rows, Len(rows) - r0 + 1)
                IN  rows_out.rows = [k \in 1..cnt |-> <<r0 + k - 2, rows[r0 + k - 1]>>]

\* C19: Case-01 block structure.  For every list of n >= 1 rows the body
\* written by encode_star is a sequence of blocks that covers exactly the
\* n - 1 successive deltas in order, with no byte after the last block; every
\* tag-0 block has run >= 3 and is maximal (the delta after it differs, unless
\* the run reached the cap); every maximal run of 1 or 2 equal deltas is
\* written as that many tag-1 blocks.  Three identical rows give two literal
\* zero-delta blocks; four identical rows give the 8-byte body 0x00, 3, six
\* zero deltas.
RECURSIVE BlocksEnd(_, _, _)
BlocksEnd(buf, pos, nf) ==
    IF pos >= Len(buf) \/ buf[pos + 1] \notin {0, 1} THEN pos
    ELSE LET r == IF buf[pos + 1] = 0 THEN varint_decode_from(buf, pos + 1, 0, 0, Shift01)
                  ELSE [ok |-> TRUE, u |-> 1, i |-> pos + 1]
         IN  IF ~r.ok THEN pos
             ELSE LET t == read_ints(buf, r.i, nf, <<>>, Shift01)
                  IN  IF ~t.ok THEN pos ELSE BlocksEnd(buf, t.i, nf)

\* the deltas a block sequence stands for
RECURSIVE ExpandBlocks(_, _)
ExpandBlocks(bs, k) ==
    IF k > Len(bs) THEN <<>>
    ELSE [j \in 1..bs[k].run |-> bs[k].tup] \o ExpandBlocks(bs, k + 1)

\* blocks bs cover deltas ds; block k starts at delta DeltaPos(bs, k) + 1
DeltaPos(bs, k) == SumRunsBefore(bs, bs[k].off, 1)

\* ds[a..b] is a maximal stretch of equal deltas
MaximalStretch(ds, a, b) ==
    /\ a <= b
    /\ \A j \in a..b : ds[j] = ds[a]
    /\ (a = 1 \/ ds[a - 1] # ds[a])
    /\ (b = Len(ds) \/ ds[b + 1] # ds[a])

GreedyBlocks(bs, ds, cap) ==
    /\ ExpandBlocks(bs, 1) = ds
    /\ \A k \in 1..Len(bs) :
         bs[k].tag = 0 =>
            /\ bs[k].run >= 3
            /\ LET e == DeltaPos(bs, k) + bs[k].run
               IN  e = Len(ds) \/ ds[e + 1] # bs[k].tup \/ bs[k].run = cap
    /\ \A a, b \in 1..Len(ds) :
         (MaximalStretch(ds, a, b) /\ b - a + 1 <= 2) =>
            \A j \in a..b : \E k \in 1..Len(bs) : bs[k].tag = 1 /\ DeltaPos(bs, k) = j - 1

Zero6 == <<0, 0, 0, 0, 0, 0>>

RECURSIVE MaximalRun(_, _, _)
MaximalRun(ds, i, r) ==
    IF i + r <= Len(ds) /\ ds[i + r] = ds[i] THEN MaximalRun(ds, i, r + 1) ELSE r

RECURSIVE GreedyScheme(_, _)
GreedyScheme(ds, i) ==
    IF i > Len(ds) THEN <<>>
    ELSE LET r == MaximalRun(ds, i, 1)
         IN  (IF r >= 3 THEN <<[tag |-> 0, run |-> r, tup |-> ds[i]]>>
              ELSE [k \in 1..r |-> [tag |-> 1, run |-> 1, tup |-> ds[i]]])
             \o GreedyScheme(ds, i + r)

Deltas(rws) == [k \in 1..(Len(rws) - 1) |-> TupSub(rws[k + 1], rws[k])]

WrittenBlocks(buf) ==
    LET bs == BodyBlocks(buf)
    IN  [k \in 1..Len(bs) |-> [tag |-> bs[k].tag, run |-> bs[k].run, tup |-> bs[k].tup]]

C20_GreedyScheme02 ==
    (pc = "encoded" /\ kase = "case02" /\ Len(rows) >= 1) =>
        /\ WrittenBlocks(packed) = GreedyScheme(Deltas(rows), 1)
        /\ ExpandBlocks(BodyBlocks(packed), 1) = Deltas(rows)
        /\ BlocksEnd(packed, BodyStart(packed), 8) = Len(packed)

\* a Case-02 recording whose deltas begin with a run of two, followed by two
\* different deltas, was encoded into four literal blocks
C20_Witness ==
    /\ pc = "encoded" /\ kase = "case02" /\ Len(rows) = 5
    /\ LET ds == Deltas(rows)
           bs == WrittenBlocks(packed)
       IN  /\ ds[1] = ds[2] /\ ds[3] # ds[2] /\ ds[4] # ds[3]
           /\ Len(bs) = 4 /\ bs[1].tag = 1 /\ bs[2].tag = 1

(* ---- C21 ---- *)

\* C21: neither encoder ever writes a tag-0 block whose run exceeds the cap
\* (RunCap stands for the 10,000,000 of the source): every tag-0 block of an
\* encoded Case-01 or Case-02 body has run <= RunCap.
C21_RunCap ==
    pc = "encoded" =>
        \A k \in 1..Len(BodyBlocks(packed)) :
            BodyBlocks(packed)[k].tag = 0 => BodyBlocks(packed)[k].run <= RunCap

\* the Case-01 half of C21: the scan of star_case01_spx_replay.py stops at the cap
C21_RunCap01 ==
    (pc = "encoded" /\ kase = "case01") =>
        \A k \in 1..Len(BodyBlocks(packed)) :
            BodyBlocks(packed)[k].tag = 0 => BodyBlocks(packed)[k].run <= RunCap

(* ---- C22 ---- *)

\* C22: the encoding of the empty row list is exactly the magic followed by
\* the single byte 0x00 ("STAR1" 0x00, 6 bytes, for Case-01; "STAR2A" 0x00
\* for Case-02), and decoding that blob returns the empty list.
C22_EmptyInput ==
    (pc = "encoded" /\ rows = <<>>) =>
        /\ kase = "case01" => packed = <<83, 84, 65, 82, 49, 0>>
        /\ kase = "case02" => packed = <<83, 84, 65, 82, 50, 65, 0>>
        /\ decoded = [ok |-> TRUE, rows |-> <<>>]

\* the empty Case-01 recording was encoded with a non-zero price scale
C22_Witness ==
    /\ pc = "encoded" /\ kase = "case01" /\ rows = <<>> /\ price_scale = 100
    /\ Len(packed) = 6

(* ---- C23 ---- *)

\* the records (p, s, suffix) written in buf from position pos to the end
RECURSIVE Records03(_, _)
Records03(buf, pos) ==
    IF pos >= Len(buf) THEN <<>>
    ELSE LET rp == varint_decode01(buf, pos)
             rs == varint_decode01(buf, rp.i)
         IN  IF ~rp.ok \/ ~rs.ok \/ rs.i + rs.u > Len(buf) THEN <<[p |-> -1, s |-> -1, suffix |-> <<>>]>>
             ELSE <<[p |-> rp.u, s |-> rs.u, suffix |-> Slice(buf, rs.i, rs.i + rs.u)]>>
                  \o Records03(buf, rs.i + rs.u)

\* the records of an encoded Case-03 file: they start after the header block
FileRecords03(buf) ==
    LET rh == varint_decode01(buf, 8) IN Records03(buf, rh.i + rh.u)

\* the length of the longest common prefix of byte strings a and b
LongestCommonPrefix(a, b) ==
    CHOOSE p \in 0..Min(Len(a), Len(b)) :
        /\ \A q \in 1..p : a[q] = b[q]
        /\ p < Min(Len(a), Len(b)) => a[p + 1] # b[p + 1]

\* data line k of the input (rows[1] is the header line), <<>> before the first
DataLine(k) == IF k = 0 THEN <<>> ELSE rows[k + 1]

\* C23: encode_lines_frontcoded writes one record per data line in input
\* order; record k is (p, s, suffix) with p the length of the longest common
\* prefix of line k and line k-1 (the empty string before the first line),
\* suffix the line without its first p bytes and s = len(suffix); the lines
\* ab, abc, abd give (0,2,"ab"), (2,1,"c"), (2,1,"d").
C23_FrontCoding ==
    (kase = "case03" /\ pc \in {"encoded", "decoded"}) =>
        LET recs == FileRecords03(packed) IN
        /\ Len(recs) = Len(rows) - 1
        /\ \A k \in 1..Len(recs) :
              LET p == LongestCommonPrefix(DataLine(k), DataLine(k - 1)) IN
              /\ recs[k].p = p
              /\ p <= Len(DataLine(k)) /\ p <= Len(DataLine(k - 1))
              /\ recs[k].suffix = Slice(DataLine(k), p, Len(DataLine(k)))
              /\ recs[k].s = Len(recs[k].suffix)
        /\ Tail(rows) = <<<<97, 98>>, <<97, 98, 99>>, <<97, 98, 100>>>> =>
              recs = << [p |-> 0, s |-> 2, suffix |-> <<97, 98>>],
                        [p |-> 2, s |-> 1, suffix |-> <<99>>],
                        [p |-> 2, s |-> 1, suffix |-> <<100>>] >>

\* the lines ab, abc, abd were encoded into three records, the last two
\* sharing a two-byte prefix with their predecessor
C23_Witness ==
    /\ kase = "case03" /\ pc = "encoded"
    /\ Tail(rows) = <<<<97, 98>>, <<97, 98, 99>>, <<97, 98, 100>>>>
    /\ Len(FileRecords03(packed)) = 3
    /\ FileRecords03(packed)[3].p = 2

(* ---- C24 ---- *)

\* the replay engine reached its anchor selection
AnchorChosen ==
    /\ pc = "replayed"
    /\ kase = "case01" => rows_out.ok
    /\ kase = "case02" => index.n_rows > 0 /\ args.seek.val < index.n_rows
    /\ kase \in {"case03", "case04"} => rows_out.resolved.done

\* the row the selection aims at
TargetRow ==
    IF kase \in {"case01", "case02"} THEN args.seek.val ELSE rows_out.resolved.target_row

\* the anchor rows of the index file, in file order
AnchorRows ==
    IF kase \in {"case01", "case02"} THEN row_keys(index)
    ELSE LET idx == IF kase = "case03" THEN load_index_magic(index.idx, MAGIC_A03, MAGIC_B03)
                    ELSE load_index_magic(index.idx, MAGIC_A04, MAGIC_B04)
         IN  [k \in 1..Len(idx.anchors) |-> idx.anchors[k][1]]

\* the row of the anchor the engine starts from
ChosenAnchorRow ==
    IF kase = "case01" THEN index.anchors[choose_anchor01(index, args.seek) + 1].row
    ELSE IF kase = "case02"
    THEN index.anchors[best_anchor02(index.anchors, args.seek.val, 0, 0) + 1].row
    ELSE rows_out.resolved.nearest[1]

\* C24: for every index written by the builder of its case and every target
\* row >= 0, the anchor chosen by the replay engine (bisect in Case-01, linear
\* scan in Case-02, resolve_seek in Cases 03/04) is the anchor with the
\* greatest row <= target; the first anchor when the target is below all rows.
C24_AnchorSelection ==
    (AnchorChosen /\ TargetRow >= 0) =>
        LET below == { k \in 1..Len(AnchorRows) : AnchorRows[k] <= TargetRow } IN
        /\ \E k \in 1..Len(AnchorRows) : AnchorRows[k] = ChosenAnchorRow
        /\ below # {} => /\ ChosenAnchorRow <= TargetRow
                         /\ \A k \in below : AnchorRows[k] <= ChosenAnchorRow
        /\ below = {} => ChosenAnchorRow = AnchorRows[1]

\* a Case-02 replay sought row 3 in an index with anchors at rows 0, 2 and 4
\* and started from the anchor of row 2
C24_Witness ==
    /\ AnchorChosen /\ kase = "case02" /\ TargetRow = 3
    /\ AnchorRows = <<0, 2, 4>> /\ ChosenAnchorRow = 2

\* the same selection in the other engines
C24_Witness01 ==
    AnchorChosen /\ kase = "case01" /\ TargetRow = 3 /\ Len(AnchorRows) >= 3 /\ ChosenAnchorRow = 2

C24_Witness34 ==
    AnchorChosen /\ kase = "case04" /\ TargetRow = 1 /\ AnchorRows = <<0, 2>> /\ ChosenAnchorRow = 0

(* ---- C25 ---- *)

\* the index file written by the builder, as the replay engine loads it
LoadedIndex34 ==
    IF kase = "case03" THEN load_index_magic(index.idx, MAGIC_A03, MAGIC_B03)
    ELSE load_index_magic(index.idx, MAGIC_A04, MAGIC_B04)

\* the flags word of the index file (u32 after magic, version, anchor_every, n)
IndexFlags34 ==
    unpack_u32(index.idx, (IF kase = "case03" THEN Len(MAGIC_A03) ELSE Len(MAGIC_A04)) + 12)

\* C25: for rows >= 1, anchor_every >= 1 and cadence >= 1 the anchors are
\* exactly the rows k*anchor_every < rows together with rows-1, strictly
\* increasing (first 0, last rows-1), each with t_min = row * cadence; the
\* index file stores offset 0 for every anchor and the OFFSETS_PRESENT bit
\* is clear.
C25_LogicalAnchors ==
    (pc = "indexed" /\ kase \in {"case03", "case04"}
       /\ args.rows >= 1 /\ args.anchor_every >= 1 /\ args.cad >= 1) =>
        /\ index.ok
        /\ LET built == build_anchors(args.rows, args.cad, args.anchor_every)
               a     == LoadedIndex34.anchors
           IN  /\ { built[k][1] : k \in 1..Len(built) } =
                     { k * args.anchor_every : k \in { j \in 0..args.rows : j * args.anchor_every < args.rows } }
                     \cup { args.rows - 1 }
               /\ \A k \in 1..(Len(built) - 1) : built[k][1] < built[k + 1][1]
               /\ built[1][1] = 0 /\ built[Len(built)][1] = args.rows - 1
               /\ \A k \in 1..Len(built) : built[k][2] = built[k][1] * args.cad
               /\ Len(a) = Len(built)
               /\ \A k \in 1..Len(a) : a[k] = <<built[k][1], built[k][2], 0>>
               /\ IndexFlags34 % 2 = 0
               /\ ~LoadedIndex34.offsets_present

\* an index of 6 rows with an anchor every 4 rows was written: anchors at
\* rows 0 and 4 and the added last row 5
C25_Witness ==
    /\ pc = "indexed" /\ kase = "case04" /\ index.ok
    /\ args.rows = 6 /\ args.anchor_every = 4 /\ args.cad = 5
    /\ LoadedIndex34.anchors = << <<0, 0, 0>>, <<4, 20, 0>>, <<5, 25, 0>> >>

(* ---- C26 ---- *)

\* the cadence replay works with: --cadence_min, else the one of the index
Cadence34 ==
    IF args.cadence_min.some THEN args.cadence_min.val ELSE LoadedIndex34.cadence_min

\* replay passed the binding check and its seek target is defined (a time
\* seek divides by the cadence)
Projected34 ==
    /\ Replayed34
    /\ sha_digest(star_buf) = StoredDigest
    /\ ~(args.seek_time.some /\ Cadence34 = 0)

\* the target row: seek_row, or floor(seek_time / cadence_min) for a time
\* seek, clamped into [0, rows_hint - 1] when rows_hint is given
Target34 ==
    LET t0 == IF args.seek_time.some THEN args.seek_time.val \div Cadence34
              ELSE args.seek_row.val
    IN  IF args.rows_hint.some THEN Max(0, Min(t0, args.rows_hint.val - 1)) ELSE t0

\* one past the last projected row
ProjectionEnd34 ==
    IF args.rows_hint.some THEN Min(Target34 + args.rows, args.rows_hint.val)
    ELSE Target34 + args.rows

\* C26: after a successful binding check the replay of Cases 03/04 emits
\* exactly the pairs (r, r * cadence_min) for r = target, ...,
\* min(target + rows, rows_hint) - 1 in increasing order (up to
\* target + rows - 1 without rows_hint).
C26_LogicalProjection ==
    Projected34 =>
        /\ rows_out.ok
        /\ rows_out.resolved.target_row = Target34
        /\ rows_out.out =
              [k \in 1..(ProjectionEnd34 - Target34) |->
                  <<Target34 + k - 1, (Target34 + k - 1) * Cadence34>>]

\* a time seek to minute 5 at cadence 1 with rows_hint 4 and rows 2 was
\* clamped to row 3 and projected the single pair (3, 3)
C26_Witness ==
    /\ Projected34 /\ args.seek_time = Some(5) /\ args.rows_hint = Some(4)
    /\ args.rows = 2 /\ Cadence34 = 1
    /\ rows_out.out = << <<3, 3>> >>

\* a row seek below zero without rows_hint projects negative rows
C26_WitnessNegative ==
    /\ Projected34 /\ args.seek_row = Some(-2) /\ ~args.seek_time.some
    /\ ~args.rows_hint.some /\ args.rows = 2 /\ Cadence34 = 5
    /\ rows_out.out = << <<-2, -10>>, <<-1, -5>> >>

(* ---- C27 ---- *)

\* the position (from 1) of the first byte of buf with the high bit clear,
\* 0 when there is none
FirstFinalByte(buf) ==
    IF \E k \in 1..Len(buf) : buf[k] < 128
    THEN CHOOSE k \in 1..Len(buf) : buf[k] < 128 /\ \A j \in 1..(k - 1) : buf[j] >= 128
    ELSE 0

TruncationError == {"truncated varint", "unexpected EOF in uvarint"}

OverlongError == {"varint too long", "uvarint too large"}

\* C27: every varint decoder fails with a truncation error when the buffer
\* ends before a byte with the high bit clear is read, and fails with an
\* overlong error instead of accepting an encoding longer than 10 bytes.
C27_VarintErrors ==
    (kase = "varint" /\ pc \in {"decoded01", "decoded02", "decoded04"}) =>
        LET t == FirstFinalByte(packed) IN
        /\ (t = 0 /\ Len(packed) <= 9) => (~decoded.ok /\ decoded.err \in TruncationError)
        /\ (t = 0 /\ Len(packed) >= 10) =>
               (~decoded.ok /\ decoded.err \in TruncationError \cup OverlongError)
        /\ t >= 11 => (~decoded.ok /\ decoded.err \in OverlongError)

\* the same statement for the decoders with the 63-bit limit (Case-01, Case-04)
C27_VarintErrors63 ==
    (kase = "varint" /\ pc \in {"decoded01", "decoded04"}) =>
        LET t == FirstFinalByte(packed) IN
        /\ (t = 0 /\ Len(packed) <= 9) => (~decoded.ok /\ decoded.err \in TruncationError)
        /\ (t = 0 /\ Len(packed) >= 10) => (~decoded.ok /\ decoded.err \in OverlongError)
        /\ t >= 11 => (~decoded.ok /\ decoded.err \in OverlongError)
        /\ t \in 1..10 => (decoded.ok /\ decoded.i = t)

\* the Case-02 decoder accepted an encoding of 11 bytes
C27_Accepted11 ==
    pc = "decoded02" /\ FirstFinalByte(packed) = 11 /\ decoded.ok /\ decoded.i = 11

(* ---- C28 ---- *)

\* the header of buf (magic, n and, for n >= 1, the base row) is complete
HeaderComplete(buf) ==
    IF kase = "case01" THEN parse_star1_header(buf).ok
    ELSE /\ Slice(buf, 0, 6) = STAR_MAGIC
         /\ varint_decode02(buf, 6).ok
         /\ varint_decode02(buf, 6).u # 0 =>
                read_ints(buf, varint_decode02(buf, 6).i, 8, <<>>, Shift02).ok

\* the rows that the well-formed blocks at the start of the body stand for,
\* the base row included
RowsInBlocks(buf) == 1 + SumRunsBefore(BodyBlocks(buf), Len(buf) + 1, 1)

\* the position behind the last well-formed block of the body
MalformedAt(buf) == BlocksEnd(buf, BodyStart(buf), NFields)

BadTagError == {"bad tag", "unknown tag in STAR2A body"}

BodyTruncationError == {"truncated body", "truncated varint"}

\* C28: in decode_star of Case-01 and Case-02 a byte other than 0x00 and 0x01
\* where a block tag is expected is a bad-tag error, a buffer that ends before
\* n rows are reconstructed is a truncation error, and no row list is
\* returned; decoding a strict prefix of an encoded file fails.
C28_MalformedFatal ==
    pc = "decoded" =>
        /\ (HeaderComplete(packed) /\ RowsInBlocks(packed) < HeaderN(packed)) =>
              LET e == MalformedAt(packed) IN
              /\ ~decoded.ok
              /\ IF e < Len(packed) /\ packed[e + 1] \notin {0, 1}
                 THEN decoded.err \in BadTagError
                 ELSE decoded.err \in BodyTruncationError
        /\ packed # star_buf => ~decoded.ok

\* a hand-made Case-02 file with a well-formed block followed by the byte
\* 0x02 where the next tag is expected was rejected
C28_Witness ==
    /\ pc = "decoded" /\ kase = "case02" /\ packed = star_buf
    /\ HeaderComplete(packed) /\ HeaderN(packed) = 3
    /\ Len(BodyBlocks(packed)) = 1 /\ RowsInBlocks(packed) = 2
    /\ MalformedAt(packed) < Len(packed) /\ packed[MalformedAt(packed) + 1] = 2
    /\ ~decoded.ok /\ decoded.err = "unknown tag in STAR2A body"

\* an encoded Case-01 file cut after its first block was rejected as truncated
C28_WitnessPrefix ==
    /\ pc = "decoded" /\ kase = "case01" /\ packed # star_buf
    /\ HeaderComplete(packed) /\ HeaderN(packed) = MaxRows
    /\ Len(BodyBlocks(packed)) = 1 /\ MalformedAt(packed) = Len(packed)
    /\ ~decoded.ok /\ decoded.err = "truncated body"

\* a Case-02 file cut inside a block
C28_WitnessInside ==
    /\ pc = "decoded" /\ kase = "case02" /\ packed # star_buf
    /\ HeaderComplete(packed) /\ MalformedAt(packed) < Len(packed)
    /\ ~decoded.ok /\ decoded.err = "truncated varint"

(* ---- C29 ---- *)

\* the number of rows the written file holds
BlobRows ==
    IF kase \in {"case01", "case02"} THEN HeaderN(packed)
    ELSE IF kase = "case03" THEN Len(FileRecords03(packed))
    ELSE unpack_u32(packed, 8)

\* C29: for every case and every N >= 0 passed as --max_rows the reader hands
\* at most N rows to the encoder and the written file holds at most N rows
\* (no rows for N = 0).
C29_RowLimit ==
    (pc = "encoded" /\ args.max_rows.some) =>
        /\ Len(rows_out) <= args.max_rows.val
        /\ BlobRows <= args.max_rows.val

\* the same bound for N >= 1 in Case-01 and for every N >= 0 in the other cases
C29_RowLimitElsewhere ==
    (pc = "encoded" /\ args.max_rows.some /\ (kase = "case01" => args.max_rows.val >= 1)) =>
        /\ Len(rows_out) <= args.max_rows.val
        /\ BlobRows <= args.max_rows.val
        /\ BlobRows = Len(rows_out)

\* negative limits are refused
C29_NegativeRefused ==
    (pc # "csv" /\ args.max_rows.some /\ args.max_rows.val < 0) => pc = "died"

\* Case-01 with --max_rows 0 wrote a file of one row
C29_OneRowAtZero ==
    /\ pc = "encoded" /\ kase = "case01" /\ args.max_rows = Some(0)
    /\ Len(rows_out) = 1 /\ BlobRows = 1

(* ---- C30 ---- *)

\* C30: Case-01 encode_star(bars, price_scale) terminates and returns a blob
\* for every finite list of bars and every integer price_scale the command
\* line accepts: every call eventually returns.
C30_EncoderTerminates == <>(pc = "returned")

\* with price_scale >= 0 (or no bars) every argument of varint_encode is >= 0,
\* the call returns, and what it returns is the encoding
C30_ArgumentsNonNegative ==
    (price_scale >= 0 \/ rows = <<>>) =>
        /\ pc = "varint" => index >= 0
        /\ pc = "returned" => star_buf = encode_star01(rows, price_scale)

C30_TerminatesNonNegative == (price_scale >= 0 \/ rows = <<>>) ~> (pc = "returned")

\* with a negative price_scale and at least one bar the loop of
\* varint_encode is entered with u < 0, and u never becomes 0
C30_NegativeStaysNegative ==
    (pc = "varint" /\ index < 0) => (index \div 128 < 0 /\ price_scale < 0 /\ rows # <<>>)

C30_NeverReturnsNegative ==
    (price_scale < 0 /\ rows # <<>>) => pc # "returned"

====
